---- MODULE Spec2Model ----
(***************************************************************************)
(* Model of the multi-vendor solar telemetry ingestion pipeline            *)
(* (backend/scripts/fetch_historic_data.py and the vendor adapters):       *)
(* flatten_data, insert_data_to_db with its timestamp parsing,             *)
(* normalization, validation and batching, and the run of                  *)
(* fetch_historic_data over credentials, plants and devices.               *)
(*                                                                         *)
(* Python values are modelled as records:                                  *)
(*   - a string is a sequence of one-character strings, so that strip(),   *)
(*     isdigit(), lower() and the regular expressions can be computed;     *)
(*   - None is [k |-> "none"], an int is [k |-> "int"] with its decimal    *)
(*     digits, a str is [k |-> "str"] with its characters;                 *)
(*   - a channel value is [k, v] with v in hundredths of the unit.         *)
(***************************************************************************)
EXTENDS Integers, Sequences, FiniteSets, TLC

VARIABLES
    fl_data,        \* flatten_data: the payload handed in
    fl_provider,    \* flatten_data: api_provider
    fl_result,      \* flatten_data: the outcome of the call, or not called yet
    tables,         \* the sink: table name -> committed rows
    error_logs,     \* the error_logs table
    conn,           \* the pipeline's connection: its open transaction
    job,            \* the ingestion at hand: device, customer, vendor, payload, destination
    last,           \* the latest insert_data_to_db call: arguments and outcome
    ingested,       \* arguments of the calls the sink accepted in full
    calls,          \* number of insert_data_to_db calls so far
    run             \* fetch_historic_data: where the run stands and what it did

flattenVars == <<fl_data, fl_provider, fl_result>>
sinkVars == <<tables, error_logs, conn, job, last, ingested, calls>>
vars == <<fl_data, fl_provider, fl_result, tables, error_logs, conn, job, last,
          ingested, calls, run>>

(***************************************************************************)
(* Python values                                                           *)
(***************************************************************************)
Digits == {"0", "1", "2", "3", "4", "5", "6", "7", "8", "9"}

DigitVal(c) ==
    CASE c = "0" -> 0 [] c = "1" -> 1 [] c = "2" -> 2 [] c = "3" -> 3
      [] c = "4" -> 4 [] c = "5" -> 5 [] c = "6" -> 6 [] c = "7" -> 7
      [] c = "8" -> 8 [] c = "9" -> 9

DigitChar(d) ==
    CASE d = 0 -> "0" [] d = 1 -> "1" [] d = 2 -> "2" [] d = 3 -> "3"
      [] d = 4 -> "4" [] d = 5 -> "5" [] d = 6 -> "6" [] d = 7 -> "7"
      [] d = 8 -> "8" [] d = 9 -> "9"

\* str(n) for a non-negative int
RECURSIVE ToDigits(_)
ToDigits(n) == IF n < 10 THEN <<DigitChar(n)>>
               ELSE Append(ToDigits(n \div 10), DigitChar(n % 10))

None == [k |-> "none", s |-> <<>>]
PyInt(digits) == [k |-> "int", s |-> digits]
PyStr(chars) == [k |-> "str", s |-> chars]

\* Python truthiness of None, an int and a str
Truthy(x) ==
    CASE x.k = "none" -> FALSE
      [] x.k = "int" -> \E i \in 1..Len(x.s) : x.s[i] # "0"
      [] x.k = "str" -> x.s # <<>>

\* a or b
PyOr(a, b) == IF Truthy(a) THEN a ELSE b

(***************************************************************************)
(* Payload nodes: a dict (one reading, or a vendor envelope with a         *)
(* paramDataList), a list, or anything else (a scalar).                    *)
(***************************************************************************)
DictNode(ts, ct, ch) ==
    [t |-> "dict", timestamp |-> ts, collectTime |-> ct, ch |-> ch, paramDataList |-> <<>>]
Envelope(items) ==
    [t |-> "dict", timestamp |-> None, collectTime |-> None, ch |-> <<>>, paramDataList |-> items]
ListNode(items) == [t |-> "list", items |-> items]
Scalar == [t |-> "other"]

max_depth == 10

(***************************************************************************)
(* flatten_data (fetch_historic_data.py 360-390).  The result is the       *)
(* returned list, or raised = TRUE when the call raises (data.get on a     *)
(* value that is neither a list nor a dict).                               *)
(***************************************************************************)
Returned(seq) == [raised |-> FALSE, out |-> seq]
Raised == [raised |-> TRUE, out |-> <<>>]

\* the loops below run over items lo..hi of a list; a range of more than one
\* item is run as its first half followed by its second half, the state after
\* the first half being computed before the second half starts, which keeps
\* the evaluation of long payloads shallow
Mid(lo, hi) == (lo + hi) \div 2
The(S) == CHOOSE x \in S : TRUE

LoopVars(flattened, seen_timestamps) ==
    [flattened |-> flattened, seen_timestamps |-> seen_timestamps]

\* lines 370-376: the body of the Solarman loop over param_data_list
solarman_item(st, item) ==
    IF item.t = "dict"
       /\ Truthy(PyOr(item.collectTime, item.timestamp))
       /\ PyOr(item.collectTime, item.timestamp) \notin st.seen_timestamps
    THEN LoopVars(Append(st.flattened, item),
                  st.seen_timestamps \cup {PyOr(item.collectTime, item.timestamp)})
    ELSE st

RECURSIVE SolarmanLoop(_, _, _, _)
SolarmanLoop(st, items, lo, hi) ==
    IF lo > hi THEN st
    ELSE IF lo = hi THEN solarman_item(st, items[lo])
    ELSE The({SolarmanLoop(half, items, Mid(lo, hi) + 1, hi) :
                 half \in {SolarmanLoop(st, items, lo, Mid(lo, hi))}})

\* lines 379-389: the body of the loop of the other vendors; every call of
\* flatten_data starts with its own empty seen_timestamps (line 363), the
\* recursive call on a nested list included
RECURSIVE flatten_list(_, _, _)
\* every dict is kept, with or without a timestamp
generic_item_without_test(st, item, api_provider, depth) ==
    CASE item.t = "list" ->
            LoopVars(st.flattened \o flatten_list(item, api_provider, depth + 1),
                     st.seen_timestamps)
      [] item.t = "dict" -> LoopVars(Append(st.flattened, item), st.seen_timestamps)
      [] OTHER -> st

generic_item(st, item, api_provider, depth) ==
    CASE item.t = "list" ->
            LoopVars(st.flattened \o flatten_list(item, api_provider, depth + 1),
                     st.seen_timestamps)
      [] item.t = "dict" ->
            IF Truthy(PyOr(item.timestamp, item.collectTime))
               /\ PyOr(item.timestamp, item.collectTime) \notin st.seen_timestamps
            THEN LoopVars(Append(st.flattened, item),
                          st.seen_timestamps \cup {PyOr(item.timestamp, item.collectTime)})
            ELSE st
      [] OTHER -> st

RECURSIVE GenericLoop(_, _, _, _, _, _)
GenericLoop(st, items, lo, hi, api_provider, depth) ==
    IF lo > hi THEN st
    ELSE IF lo = hi THEN generic_item(st, items[lo], api_provider, depth)
    ELSE The({GenericLoop(half, items, Mid(lo, hi) + 1, hi, api_provider, depth) :
                 half \in {GenericLoop(st, items, lo, Mid(lo, hi), api_provider, depth)}})

\* lines 369 and 378: the list the loop runs over
param_data_list(data) == IF data.t = "list" THEN data.items ELSE data.paramDataList
data_list(data) == IF data.t = "list" THEN data.items ELSE <<data>>

\* the body of flatten_data on a list or a dict (the cases that do not raise)
flatten_list(data, api_provider, depth) ==
    IF depth > max_depth THEN <<>>
    ELSE IF api_provider = "solarman"
    THEN SolarmanLoop(LoopVars(<<>>, {}), param_data_list(data), 1,
                      Len(param_data_list(data))).flattened
    ELSE GenericLoop(LoopVars(<<>>, {}), data_list(data), 1, Len(data_list(data)),
                     api_provider, depth).flattened

\* line 368: data.get raises AttributeError when data is neither list nor dict
flatten_data(data, api_provider) ==
    IF api_provider = "solarman" /\ data.t = "other" THEN Raised
    ELSE Returned(flatten_list(data, api_provider, 0))

(***************************************************************************)
(* Timestamps (insert_data_to_db, lines 410-430).  A datetime is the       *)
(* record of its civil fields; entry_timestamp, the '%Y-%m-%d %H:%M:%S'    *)
(* rendering of it, is written as the same record.                         *)
(***************************************************************************)
\* str.strip(): whitespace is the blank
RECURSIVE lstrip(_)
lstrip(s) == IF s # <<>> /\ Head(s) = " " THEN lstrip(Tail(s)) ELSE s
RECURSIVE rstrip(_)
rstrip(s) == IF s # <<>> /\ s[Len(s)] = " " THEN rstrip(SubSeq(s, 1, Len(s) - 1)) ELSE s
strip(s) == rstrip(lstrip(s))

\* str.isdigit(): non-empty and every character a digit
isdigit(s) == s # <<>> /\ \A i \in 1..Len(s) : s[i] \in Digits

\* s.replace('.', '', 1)
RECURSIVE replace_first_dot(_)
replace_first_dot(s) ==
    IF s = <<>> THEN s
    ELSE IF Head(s) = "." THEN Tail(s)
    ELSE <<Head(s)>> \o replace_first_dot(Tail(s))

\* the digits of a number without leading zeros
RECURSIVE StripZeros(_)
StripZeros(d) == IF Len(d) > 1 /\ Head(d) = "0" THEN StripZeros(Tail(d)) ELSE d

\* float(s) of digits with at most one '.': the integer part (as digits) and
\* whether a non-zero fraction follows
DotIndex(s) == IF \E i \in 1..Len(s) : s[i] = "."
               THEN CHOOSE i \in 1..Len(s) : s[i] = "."
               ELSE Len(s) + 1
FloatOf(ip, fr) ==
    [int |-> StripZeros(IF ip = <<>> THEN <<"0">> ELSE ip),
     frac |-> \E i \in 1..Len(fr) : fr[i] # "0"]
SplitAt(s, d) == FloatOf(SubSeq(s, 1, d - 1), SubSeq(s, d + 1, Len(s)))
float(s) == SplitAt(s, DotIndex(s))

TenPow12 == <<"1", "0", "0", "0", "0", "0", "0", "0", "0", "0", "0", "0", "0">>

\* line 418: ts_float > 10**12
GreaterThanTenPow12(f) ==
    \/ Len(f.int) > 13
    \/ Len(f.int) = 13 /\ (f.int # TenPow12 \/ f.frac)

\* a <= b for two digit strings of the same length
RECURSIVE DigitsLeq(_, _)
DigitsLeq(a, b) ==
    IF a = <<>> THEN TRUE
    ELSE IF Head(a) # Head(b) THEN DigitVal(Head(a)) < DigitVal(Head(b))
    ELSE DigitsLeq(Tail(a), Tail(b))

\* 9999-12-31 23:59:59 UTC, the last instant a datetime can hold
MaxEpoch == <<"2", "5", "3", "4", "0", "2", "3", "0", "0", "7", "9", "9">>

\* quotient and remainder of a digit string by m (long division, every
\* intermediate value small)
RECURSIVE DivModLoop(_, _, _, _)
DivModLoop(d, m, q, r) ==
    IF d = <<>> THEN [q |-> q, r |-> r]
    ELSE DivModLoop(Tail(d), m, q * 10 + (r * 10 + DigitVal(Head(d))) \div m,
                    (r * 10 + DigitVal(Head(d))) % m)
DivMod(d, m) == DivModLoop(d, m, 0, 0)

\* the civil date of a day number counted from 1970-01-01
CivilOfMonth(era, yoe, doy, mp) ==
    [Y |-> yoe + era * 400 + (IF mp >= 10 THEN 1 ELSE 0),
     M |-> IF mp < 10 THEN mp + 3 ELSE mp - 9,
     D |-> doy - (153 * mp + 2) \div 5 + 1]
CivilOfDayOfYear(era, yoe, doy) == CivilOfMonth(era, yoe, doy, (5 * doy + 2) \div 153)
CivilOfYearOfEra(era, doe, yoe) ==
    CivilOfDayOfYear(era, yoe, doe - (365 * yoe + yoe \div 4 - yoe \div 100))
CivilOfDayOfEra(era, doe) ==
    CivilOfYearOfEra(era, doe,
                     (doe - doe \div 1460 + doe \div 36524 - doe \div 146096) \div 365)
CivilOfEra(z, era) == CivilOfDayOfEra(era, z - era * 146097)
CivilFromDays(z0) == CivilOfEra(z0 + 719468, (z0 + 719468) \div 146097)

DateTime(Y, M, D, h, mi, sec) == [Y |-> Y, M |-> M, D |-> D, h |-> h, mi |-> mi, sec |-> sec]
NoDateTime == DateTime(0, 0, 0, 0, 0, 0)

\* the second-precision UTC datetime of epoch seconds given as digits
DateAndTime(c, r) == DateTime(c.Y, c.M, c.D, r \div 3600, (r % 3600) \div 60, r % 60)
UtcOfDayAndSecond(dm) == DateAndTime(CivilFromDays(dm.q), dm.r)
UtcOfEpoch(secs) == UtcOfDayAndSecond(DivMod(secs, 86400))

\* datetime.fromtimestamp(ts_float, tz=UTC): ValueError past year 9999.  The
\* fraction of a second is dropped by strftime.
fromtimestamp(secs) ==
    IF Len(secs) < 12 \/ (Len(secs) = 12 /\ DigitsLeq(secs, MaxEpoch))
    THEN [ok |-> TRUE, dt |-> UtcOfEpoch(secs)]
    ELSE [ok |-> FALSE, dt |-> NoDateTime]

\* the number of a short digit string
RECURSIVE NatOf(_)
NatOf(d) == IF d = <<>> THEN 0 ELSE NatOf(SubSeq(d, 1, Len(d) - 1)) * 10 + DigitVal(d[Len(d)])

IsLeap(y) == (y % 4 = 0 /\ y % 100 # 0) \/ y % 400 = 0
DaysInMonth(y, m) ==
    IF m = 2 THEN (IF IsLeap(y) THEN 29 ELSE 28)
    ELSE IF m \in {4, 6, 9, 11} THEN 30 ELSE 31

\* the maximal runs of digits, runs of blanks, and single other characters
RECURSIVE Tokens(_, _)
CharClass(x) == IF x \in Digits THEN "d" ELSE IF x = " " THEN "b" ELSE "o"
Tokens(s, acc) ==
    IF s = <<>> THEN acc
    ELSE IF /\ Len(acc) > 0
            /\ CharClass(Head(s)) # "o"
            /\ CharClass(acc[Len(acc)][1]) = CharClass(Head(s))
    THEN Tokens(Tail(s), [acc EXCEPT ![Len(acc)] = Append(@, Head(s))])
    ELSE Tokens(Tail(s), Append(acc, <<Head(s)>>))

\* datetime.strptime(s, '%Y-%m-%d %H:%M:%S'): a four-digit year, one or two
\* digits for the other fields, any run of blanks for the blank; ValueError
\* when the text does not match or names no date
MatchesFormat(t) ==
    /\ Len(t) = 11
    /\ \A i \in {1, 3, 5, 7, 9, 11} : isdigit(t[i])
    /\ Len(t[1]) = 4
    /\ \A i \in {3, 5, 7, 9, 11} : Len(t[i]) <= 2
    /\ t[2] = <<"-">> /\ t[4] = <<"-">>
    /\ t[6][1] = " "
    /\ t[8] = <<":">> /\ t[10] = <<":">>
CheckedDateTime(Y, M, D, h, mi, sec) ==
    IF Y >= 1 /\ M \in 1..12 /\ D >= 1 /\ D <= DaysInMonth(Y, M)
       /\ h <= 23 /\ mi <= 59 /\ sec <= 59
    THEN [ok |-> TRUE, dt |-> DateTime(Y, M, D, h, mi, sec)]
    ELSE [ok |-> FALSE, dt |-> NoDateTime]
ParseTokens(t) ==
    IF MatchesFormat(t)
    THEN CheckedDateTime(NatOf(t[1]), NatOf(t[3]), NatOf(t[5]),
                         NatOf(t[7]), NatOf(t[9]), NatOf(t[11]))
    ELSE [ok |-> FALSE, dt |-> NoDateTime]
strptime(s) == ParseTokens(Tokens(s, <<>>))

\* lines 414-430 for a truthy ts_str.  st is
\*   "attribute_error"  ts_str.strip() on an int: not caught by the inner except
\*   "error"            ValueError: the reading is skipped and an error queued
\*   "skip"             the ShineMonitor 5-minute filter
\*   "ok"               entry_timestamp holds the rendering of the instant
\* lines 417-419: the epoch seconds of ts_float, whole seconds as digits
epoch_seconds(ts_float) ==
    IF GreaterThanTenPow12(ts_float)
    THEN SubSeq(ts_float.int, 1, Len(ts_float.int) - 3)
    ELSE ts_float.int

\* lines 416-422: ts, or the ValueError
to_datetime(s) ==
    IF isdigit(replace_first_dot(s)) THEN fromtimestamp(epoch_seconds(float(s)))
    ELSE strptime(s)

\* lines 423-430 without the test of line 423
timestamp_outcome_unfiltered(s, ts, api_provider) ==
    IF ~ts.ok
    THEN [st |-> "error", raw |-> PyStr(s), entry_timestamp |-> NoDateTime]
    ELSE [st |-> "ok", raw |-> PyStr(s), entry_timestamp |-> ts.dt]

\* lines 423-430
timestamp_outcome(s, ts, api_provider) ==
    IF ~ts.ok
    THEN [st |-> "error", raw |-> PyStr(s), entry_timestamp |-> NoDateTime]
    ELSE IF api_provider = "shinemonitor" /\ ts.dt.mi % 5 # 0
    THEN [st |-> "skip", raw |-> PyStr(s), entry_timestamp |-> NoDateTime]
    ELSE [st |-> "ok", raw |-> PyStr(s), entry_timestamp |-> ts.dt]

stripped_timestamp(s, api_provider) == timestamp_outcome(s, to_datetime(s), api_provider)

parse_timestamp(ts_str, api_provider) ==
    IF ts_str.k # "str"
    THEN [st |-> "attribute_error", raw |-> ts_str, entry_timestamp |-> NoDateTime]
    ELSE stripped_timestamp(strip(ts_str.s), api_provider)

(***************************************************************************)
(* Channel values and the canonical columns                                *)
(***************************************************************************)
\* a channel value: None, a float, a numeric string, or any other text; v is
\* the number in hundredths (or the text's identity)
NoneV == [k |-> "none", v |-> 0]
Num(c) == [k |-> "num", v |-> c]
NumStr(c) == [k |-> "numstr", v |-> c]
Text(id) == [k |-> "text", v |-> id]
Unknown == Text(0)      \* the string 'unknown'

Pad2(j) == IF j < 10 THEN "0" \o DigitChar(j) ELSE "1" \o DigitChar(j - 10)
pv_key(j, quantity) == "pv" \o Pad2(j) \o "_" \o quantity

PvCols == {pv_key(j, q) : j \in 1..12, q \in {"voltage", "current"}}
PhaseCols == {"r_voltage", "s_voltage", "t_voltage", "r_current", "s_current", "t_current"}
LineCols == {"rs_voltage", "st_voltage", "tr_voltage"}

\* the keys of default_entry (lines 281-293)
default_keys ==
    PvCols \cup PhaseCols \cup LineCols \cup
    {"frequency", "total_power", "reactive_power", "energy_today", "cuf", "pr", "state"}

default_entry == [c \in default_keys |-> IF c = "state" THEN Unknown ELSE NoneV]

\* entry.get(key) and entry.get(key, default) on a reading
Has(entry, key) == key \in DOMAIN entry.ch
Get(entry, key) == IF Has(entry, key) THEN entry.ch[key] ELSE NoneV
GetOr(entry, key, default) == IF Has(entry, key) THEN entry.ch[key] ELSE default

\* the keys each branch of normalize_data_entry copies from the reading
mapped_keys(api_provider) ==
    CASE api_provider = "soliscloud" ->
            PvCols \cup PhaseCols \cup {"total_power", "energy_today", "pr", "state"}
      [] api_provider = "solarman" ->
            PvCols \cup PhaseCols \cup LineCols \cup
            {"frequency", "total_power", "reactive_power", "energy_today", "pr", "state"}
      [] OTHER ->
            PvCols \cup PhaseCols \cup
            {"frequency", "total_power", "reactive_power", "energy_today", "pr", "state", "cuf"}

\* normalize_data_entry (lines 279-358): a dict over default_keys and
\* 'timestamp'
normalize_data_entry(entry, api_provider) ==
    [key \in default_keys \cup {"timestamp"} |->
        IF key = "timestamp"
        THEN (IF api_provider = "solarman"
              THEN PyOr(entry.timestamp, entry.collectTime)
              ELSE entry.timestamp)
        ELSE IF key \in mapped_keys(api_provider)
        THEN (IF key = "state" THEN GetOr(entry, key, Unknown) ELSE Get(entry, key))
        ELSE default_entry[key]]

\* validate_parameter with both comparisons strict
validate_parameter_exclusive(value, min_val, max_val) ==
    CASE value.k = "none" -> [valid |-> TRUE, error |-> "none"]
      [] value.k \in {"num", "numstr"} ->
            IF min_val * 100 < value.v /\ value.v < max_val * 100
            THEN [valid |-> TRUE, error |-> "none"]
            ELSE [valid |-> FALSE, error |-> "out_of_range"]
      [] OTHER -> [valid |-> FALSE, error |-> "invalid_value"]

\* validate_parameter (lines 120-130); min_val and max_val in units
validate_parameter(value, min_val, max_val) ==
    CASE value.k = "none" -> [valid |-> TRUE, error |-> "none"]
      [] value.k \in {"num", "numstr"} ->
            IF min_val * 100 <= value.v /\ value.v <= max_val * 100
            THEN [valid |-> TRUE, error |-> "none"]
            ELSE [valid |-> FALSE, error |-> "out_of_range"]
      [] OTHER -> [valid |-> FALSE, error |-> "invalid_value"]

Check(key, lo, hi) == [key |-> key, min |-> lo, max |-> hi]

\* the checks of lines 435-494, in the order the code makes them
validation_checks ==
    [i \in 1..24 |-> IF i % 2 = 1 THEN Check(pv_key((i + 1) \div 2, "voltage"), 0, 1000)
                     ELSE Check(pv_key(i \div 2, "current"), 0, 50)]
    \o << Check("r_voltage", 0, 300), Check("r_current", 0, 100),
          Check("s_voltage", 0, 300), Check("s_current", 0, 100),
          Check("t_voltage", 0, 300), Check("t_current", 0, 100),
          Check("total_power", 0, 100000),
          Check("energy_today", 0, 1000),
          Check("pr", 0, 100),
          Check("frequency", 0, 70),
          Check("reactive_power", -100000, 100000) >>

\* lines 434-494: the entry with every failing value set to None, and
\* validation_errors as (field_name, field_value, error)
RECURSIVE validate_entry(_, _, _)
checked(entry, i, validation_errors, c, r) ==
    IF c.key \in DOMAIN entry /\ entry[c.key] # NoneV /\ ~r.valid
    THEN validate_entry([entry EXCEPT ![c.key] = NoneV], i + 1,
                        Append(validation_errors,
                               [field_name |-> c.key, field_value |-> entry[c.key],
                                error_message |-> r.error]))
    ELSE validate_entry(entry, i + 1, validation_errors)
check(entry, i, validation_errors, c) ==
    checked(entry, i, validation_errors, c,
            validate_parameter(IF c.key \in DOMAIN entry THEN entry[c.key] ELSE NoneV,
                               c.min, c.max))
validate_entry(entry, i, validation_errors) ==
    IF i > Len(validation_checks)
    THEN [entry |-> entry, validation_errors |-> validation_errors]
    ELSE check(entry, i, validation_errors, validation_checks[i])

(***************************************************************************)
(* The sink.  tables maps each existing table to its committed rows, in    *)
(* insertion order; a connection holds the rows its open transaction has   *)
(* inserted and whether a failed statement has aborted that transaction    *)
(* (PostgreSQL through psycopg2, no autocommit: after a failed statement   *)
(* every further statement fails until the transaction ends, and a commit  *)
(* of an aborted transaction rolls it back).                               *)
(***************************************************************************)
Historical == [kind |-> "historical", id |-> <<>>]      \* device_data_historical
CustomerTable(id) == [kind |-> "customer", id |-> id]   \* customer_<id>_device_data

LowerChar(c) ==
    CASE c = "A" -> "a" [] c = "B" -> "b" [] c = "C" -> "c" [] c = "D" -> "d"
      [] OTHER -> c
lower(s) == [i \in 1..Len(s) |-> LowerChar(s[i])]

\* line 394
table_name_of(customer_id, is_real_time) ==
    IF is_real_time THEN CustomerTable(lower(customer_id)) ELSE Historical

CleanConn == [pending |-> <<>>, aborted |-> FALSE]

ErrorRow(customer_id, device_sn, api_provider, field_name, field_value, error_message) ==
    [customer_id |-> customer_id, device_sn |-> device_sn, api_provider |-> api_provider,
     field_name |-> field_name, field_value |-> field_value, error_message |-> error_message]

\* log_error_to_db (lines 132-147) for the rows of one or several calls made
\* in a row.  log_db is the state of the error-log connection:
\*   "up"            the row is inserted and committed
\*   "insert_fails"  execute raises; caught and logged, nothing is written
\*   "down"          get_db_connection raises, conn is never bound, and the
\*                   finally clause's conn.close() raises UnboundLocalError
log_error_to_db(elog, rows, log_db) ==
    IF rows = <<>> THEN [error_logs |-> elog, raised |-> FALSE]
    ELSE CASE log_db = "up" -> [error_logs |-> elog \o rows, raised |-> FALSE]
           [] log_db = "insert_fails" -> [error_logs |-> elog, raised |-> FALSE]
           [] OTHER -> [error_logs |-> elog, raised |-> TRUE]

RowKey(r) == <<r.device_sn, r.timestamp>>

\* a plain INSERT, without the ON CONFLICT clause
insert_without_conflict_clause(tbls, pending, table_name, row) ==
    Append(pending, [table |-> table_name, row |-> row])

\* one row of INSERT ... ON CONFLICT (device_sn, timestamp) DO NOTHING
on_conflict_do_nothing(tbls, pending, table_name, row) ==
    IF \/ \E i \in 1..Len(tbls[table_name]) : RowKey(tbls[table_name][i]) = RowKey(row)
       \/ \E i \in 1..Len(pending) :
             pending[i].table = table_name /\ RowKey(pending[i].row) = RowKey(row)
    THEN pending
    ELSE Append(pending, [table |-> table_name, row |-> row])

\* the rows lo..hi of one executemany, one INSERT each
RECURSIVE insert_rows(_, _, _, _, _, _)
insert_rows(tbls, pending, table_name, data_tuples, lo, hi) ==
    IF lo > hi THEN pending
    ELSE IF lo = hi THEN on_conflict_do_nothing(tbls, pending, table_name, data_tuples[lo])
    ELSE The({insert_rows(tbls, half, table_name, data_tuples, Mid(lo, hi) + 1, hi) :
                 half \in {insert_rows(tbls, pending, table_name, data_tuples,
                                       lo, Mid(lo, hi))}})

\* cur.executemany of lines 530-542 and 552-564; fails is the sink refusing
\* the statement
executemany(tbls, cn, table_name, data_tuples, fails) ==
    IF cn.aborted \/ fails \/ table_name \notin DOMAIN tbls
    THEN [ok |-> FALSE, conn |-> [cn EXCEPT !.aborted = TRUE]]
    ELSE [ok |-> TRUE,
          conn |-> [cn EXCEPT !.pending = insert_rows(tbls, cn.pending, table_name,
                                                        data_tuples, 1, Len(data_tuples))]]

\* the pending rows of table t
InTable(pending, t) == SelectSeq(pending, LAMBDA e : e.table = t)
RowsFor(pending, t) == [i \in 1..Len(InTable(pending, t)) |-> InTable(pending, t)[i].row]

\* conn.commit()
commit(tbls, cn) ==
    IF cn.aborted THEN tbls
    ELSE [t \in DOMAIN tbls |-> tbls[t] \o RowsFor(cn.pending, t)]

batch_size == 200

(***************************************************************************)
(* insert_data_to_db (lines 392-579).  env is what the sink does during    *)
(* the call: fail, the executemany calls (numbered from 1) it refuses, and *)
(* log_db, the state of the error-log connection.                          *)
(***************************************************************************)
LoopState(tbls, cn, elog) ==
    [data_tuples |-> <<>>, errors |-> <<>>, conn |-> cn, error_logs |-> elog,
     exc |-> "none", execs |-> <<>>]

\* the error_logs rows of a list of (field_name, field_value, error_message)
error_rows(errors, a) ==
    [i \in 1..Len(errors) |->
        ErrorRow(a.customer_id, a.device_sn, a.api_provider,
                 errors[i].field_name, errors[i].field_value, errors[i].error_message)]

\* lines 543-548 and 565-568: the except clause of a batch
batch_logged(done, logged) ==
    [done EXCEPT !.error_logs = logged.error_logs,
                 !.exc = IF logged.raised THEN "UnboundLocalError" ELSE "none"]

batch_done(st, r, a, env) ==
    IF r.ok
    THEN [st EXCEPT !.conn = r.conn, !.data_tuples = <<>>,
                    !.execs = Append(@, [table |-> a.table_name, rows |-> st.data_tuples,
                                         ok |-> TRUE])]
    ELSE batch_logged([st EXCEPT !.conn = r.conn, !.data_tuples = <<>>,
                                 !.execs = Append(@, [table |-> a.table_name,
                                                      rows |-> st.data_tuples, ok |-> FALSE])],
                      log_error_to_db(st.error_logs,
                          <<ErrorRow(a.customer_id, a.device_sn, a.api_provider,
                                     "insert_data_batch",
                                     [k |-> "rows", v |-> st.data_tuples], "batch_failed")>>,
                          env.log_db))

\* lines 528-548 and 550-568: one batch
flush(st, tbls, a, env) ==
    batch_done(st,
               executemany(tbls, st.conn, a.table_name, st.data_tuples,
                           (Len(st.execs) + 1) \in env.fail),
               a, env)

\* lines 499-548: the validated entry joins the batch
append_tuple(added, tbls, a, env) ==
    IF Len(added.data_tuples) >= batch_size THEN flush(added, tbls, a, env) ELSE added

\* lines 496-548, once the validation errors went to log_error_to_db
entry_logged(st, p, v, logged, tbls, a, env) ==
    IF logged.raised
    THEN [st EXCEPT !.exc = "UnboundLocalError"]
    ELSE IF Cardinality(DOMAIN v.entry) <= 1
    THEN [st EXCEPT !.error_logs = logged.error_logs]
    ELSE append_tuple([st EXCEPT !.error_logs = logged.error_logs,
                                 !.data_tuples =
                                     Append(@, [device_sn |-> a.device_sn,
                                                timestamp |-> p.entry_timestamp,
                                                c |-> [key \in default_keys |->
                                                          IF key \in DOMAIN v.entry
                                                          THEN v.entry[key] ELSE NoneV]])],
                      tbls, a, env)

\* lines 433-498
entry_validated(st, p, v, tbls, a, env) ==
    entry_logged(st, p, v,
                 log_error_to_db(st.error_logs, error_rows(v.validation_errors, a), env.log_db),
                 tbls, a, env)

\* the loop body without the try/except of lines 413-431: the ValueError of
\* an unparseable timestamp leaves the loop
entry_parsed_without_except(st, entry, p, tbls, a, env) ==
    CASE p.st = "attribute_error" -> [st EXCEPT !.exc = "AttributeError"]
      [] p.st = "error" -> [st EXCEPT !.exc = "ValueError"]
      [] p.st = "skip" -> st
      [] OTHER ->
            entry_validated(st, p,
                            validate_entry(normalize_data_entry(entry, a.api_provider), 1, <<>>),
                            tbls, a, env)

\* lines 414-548, once ts_str is known to be truthy
entry_parsed(st, entry, p, tbls, a, env) ==
    CASE p.st = "attribute_error" -> [st EXCEPT !.exc = "AttributeError"]
      [] p.st = "error" ->
            [st EXCEPT !.errors = Append(@, [field_name |-> "timestamp", field_value |-> p.raw,
                                             error_message |-> "invalid_timestamp"])]
      [] p.st = "skip" -> st
      [] OTHER ->
            entry_validated(st, p,
                            validate_entry(normalize_data_entry(entry, a.api_provider), 1, <<>>),
                            tbls, a, env)

\* lines 406-548: the loop body for one flattened entry
process_entry(st, entry, tbls, a, env) ==
    IF st.exc # "none" THEN st
    ELSE IF entry.t # "dict"
    THEN [st EXCEPT !.errors = Append(@, [field_name |-> "entry_type", field_value |-> None,
                                          error_message |-> "invalid_entry_type"])]
    ELSE IF ~Truthy(PyOr(entry.timestamp, entry.collectTime))
    THEN [st EXCEPT !.errors = Append(@, [field_name |-> "timestamp", field_value |-> None,
                                          error_message |-> "missing_timestamp"])]
    ELSE entry_parsed(st, entry,
                      parse_timestamp(PyOr(entry.timestamp, entry.collectTime), a.api_provider),
                      tbls, a, env)

\* line 406: the loop over entries lo..hi of flattened_data
RECURSIVE insert_loop(_, _, _, _, _, _, _)
insert_loop(st, flattened_data, lo, hi, tbls, a, env) ==
    IF lo > hi THEN st
    ELSE IF lo = hi THEN process_entry(st, flattened_data[lo], tbls, a, env)
    ELSE The({insert_loop(half, flattened_data, Mid(lo, hi) + 1, hi, tbls, a, env) :
                 half \in {insert_loop(st, flattened_data, lo, Mid(lo, hi), tbls, a, env)}})

InsertArgs(data, device_sn, customer_id, api_provider, is_real_time) ==
    [data |-> data, device_sn |-> device_sn, customer_id |-> customer_id,
     api_provider |-> api_provider, is_real_time |-> is_real_time,
     table_name |-> table_name_of(customer_id, is_real_time)]

\* what a call leaves behind: the sink, the error log and the connection,
\* whether it raised, and the executemany calls it made
Outcome(tbls, cn, elog, raised, execs) ==
    [tables |-> tbls, conn |-> cn, error_logs |-> elog, raised |-> raised, execs |-> execs]

\* lines 575-579: log_error_to_db, conn.rollback(), raise; when the logging
\* itself raises, the rollback is not reached
handled(tbls, final, handler) ==
    Outcome(tbls, IF handler.raised THEN final.conn ELSE CleanConn, handler.error_logs,
            TRUE, final.execs)

except_handler(tbls, final, elog, a, env) ==
    handled(tbls, final,
            log_error_to_db(elog,
                <<ErrorRow(a.customer_id, a.device_sn, a.api_provider, "insert_data_batch",
                           [k |-> "sn", v |-> a.device_sn], "insert_failed")>>,
                env.log_db))

\* lines 570-573, once the deferred errors went to log_error_to_db
errors_logged(tbls, final, deferred, a, env) ==
    IF deferred.raised THEN except_handler(tbls, final, deferred.error_logs, a, env)
    ELSE Outcome(commit(tbls, final.conn), CleanConn, deferred.error_logs, FALSE, final.execs)

\* lines 570-579
after_batches(tbls, final, a, env) ==
    IF final.exc # "none" THEN except_handler(tbls, final, final.error_logs, a, env)
    ELSE errors_logged(tbls, final,
                       log_error_to_db(final.error_logs, error_rows(final.errors, a),
                                       env.log_db),
                       a, env)

\* lines 550-568: the final batch
final_batch(looped, tbls, a, env) ==
    IF looped.exc = "none" /\ looped.data_tuples # <<>>
    THEN flush(looped, tbls, a, env) ELSE looped

\* lines 397-579
flattened(flat, tbls, cn, elog, a, env) ==
    IF flat.raised
    THEN except_handler(tbls, LoopState(tbls, cn, elog), elog, a, env)
    ELSE IF flat.out = <<>>
    THEN Outcome(tbls, cn, elog, FALSE, <<>>)
    ELSE after_batches(tbls,
                       final_batch(insert_loop(LoopState(tbls, cn, elog), flat.out, 1,
                                               Len(flat.out), tbls, a, env),
                                   tbls, a, env),
                       a, env)

insert_data_to_db(tbls, cn, elog, a, env) ==
    flattened(flatten_data(a.data, a.api_provider), tbls, cn, elog, a, env)

(***************************************************************************)
(* The state of the sink between calls.                                    *)
(***************************************************************************)
NotCalled == [st |-> "idle", out |-> <<>>]

Customer1 == <<"C", "1">>        \* a customer id that passes validate_customer_id
Device1 == "INV-1"

\* last before any call; afterwards: the arguments, what the sink did, whether
\* the connection was clean at the start (fresh), whether the same arguments
\* had been ingested before (again), whether the call raised, the
\* executemany calls it made and the error_logs rows it added
NoCall == [called |-> FALSE, a |-> InsertArgs(Scalar, Device1, Customer1, "soliscloud", FALSE),
           env |-> [fail |-> {}, log_db |-> "up"], fresh |-> TRUE, again |-> FALSE,
           raised |-> FALSE, execs |-> <<>>, logged |-> <<>>]

\* the tables of the deployment: the shared historical table and the
\* customer's own table, both empty
EmptyTables == [t \in {Historical, CustomerTable(lower(Customer1))} |-> <<>>]

\* run before fetch_historic_data is started
NoRun == [pc |-> "idle", csv |-> <<>>, loaded |-> FALSE, credentials |-> <<>>,
          customers |-> {}, api_credentials |-> {}, plants |-> {}, devices |-> {},
          daily |-> {}, ci |-> 0, n |-> 0, di |-> 0, listed |-> {}, finished |-> {},
          inserts |-> {}, fetches |-> <<>>, sightings |-> 0,
          sighted |-> <<>>, vendor |-> <<>>, entry |-> <<>>,
          token |-> <<>>, window |-> <<>>,
          again |-> <<>>, params |-> <<>>]

SinkIdle ==
    /\ run = NoRun
    /\ tables = EmptyTables
    /\ error_logs = <<>>
    /\ conn = CleanConn
    /\ job = NoCall.a
    /\ last = NoCall
    /\ ingested = {}
    /\ calls = 0

FlattenIdle ==
    /\ fl_data = Scalar
    /\ fl_provider = "soliscloud"
    /\ fl_result = NotCalled

MaxCalls == 2       \* insert_data_to_db calls in one behaviour

\* the sink accepted the whole call
Accepted(r) == ~r.raised /\ \A i \in 1..Len(r.execs) : r.execs[i].ok

\* one call insert_data_to_db(conn, data, device_sn, customer_id,
\* api_provider, is_real_time) for the job at hand, with the sink behaving as
\* env says
InsertCall(env) ==
    /\ calls < MaxCalls
    /\ \E r \in {insert_data_to_db(tables, conn, error_logs, job, env)} :
          /\ tables' = r.tables
          /\ conn' = r.conn
          /\ error_logs' = r.error_logs
          /\ last' = [called |-> TRUE, a |-> job, env |-> env,
                      fresh |-> conn = CleanConn, again |-> job \in ingested,
                      raised |-> r.raised,
                      execs |-> r.execs,
                      logged |-> SubSeq(r.error_logs, Len(error_logs) + 1, Len(r.error_logs))]
          /\ ingested' = IF Accepted(r) THEN ingested \cup {job} ELSE ingested
    /\ calls' = calls + 1
    /\ UNCHANGED <<job, run>>
    /\ UNCHANGED flattenVars

(***************************************************************************)
(* Sample readings.  Timestamps are written as vendors send them: epoch    *)
(* seconds or milliseconds as a string or an int, or a formatted string.   *)
(***************************************************************************)
Providers == {"soliscloud", "solarman", "shinemonitor"}

EpochStr(n) == PyStr(ToDigits(n))
T1 == EpochStr(1718000100)      \* 2024-06-10 06:15:00
T2 == EpochStr(1718000400)      \* 2024-06-10 06:20:00

Power(c) == [total_power |-> Num(c)]

\* the readings flatten_data is tried on: two with timestamp T1 and
\* different channels, one with T2, one that has only a collectTime, and one
\* without any timestamp
FlattenEntries ==
    {DictNode(T1, None, Power(100)), DictNode(T1, None, Power(200)),
     DictNode(T2, None, Power(300)), DictNode(None, T1, Power(400)),
     DictNode(None, None, Power(500))}

MaxSub == 1     \* longest nested sub-list
MaxTop == 2     \* longest top-level list

SeqsUpTo(S, n) == UNION {[1..k -> S] : k \in 0..n}

SubLists == {ListNode(items) : items \in SeqsUpTo(FlattenEntries, MaxSub)}
FlattenPayloads ==
    {ListNode(items) : items \in SeqsUpTo(FlattenEntries \cup SubLists \cup {Scalar}, MaxTop)}
    \cup FlattenEntries
    \cup {Envelope(l.items) : l \in SubLists}
    \cup {Scalar}

FlattenInit ==
    /\ fl_data \in FlattenPayloads
    /\ fl_provider \in Providers
    /\ fl_result = NotCalled
    /\ SinkIdle

\* one call of flatten_data(data, api_provider)
FlattenCall ==
    /\ fl_result.st = "idle"
    /\ LET r == flatten_data(fl_data, fl_provider) IN
       fl_result' = [st |-> IF r.raised THEN "raised" ELSE "returned", out |-> r.out]
    /\ UNCHANGED <<fl_data, fl_provider, run>>
    /\ UNCHANGED sinkVars

FlattenNext == FlattenCall
SpecFlatten == FlattenInit /\ [][FlattenNext]_vars

\* the key flatten_data deduplicates on (lines 373 and 383)
raw_timestamp(entry, api_provider) ==
    IF api_provider = "solarman" THEN PyOr(entry.collectTime, entry.timestamp)
    ELSE PyOr(entry.timestamp, entry.collectTime)

\* the readings of a payload in input order, nested sub-lists included
RECURSIVE ReadingsInOrder(_)
ReadingsInOrder(items) ==
    IF items = <<>> THEN <<>>
    ELSE (CASE Head(items).t = "list" -> ReadingsInOrder(Head(items).items)
            [] Head(items).t = "dict" -> <<Head(items)>>
            [] OTHER -> <<>>)
         \o ReadingsInOrder(Tail(items))

\* the first reading of the sequence that carries the raw timestamp ts
RECURSIVE FirstWith(_, _, _)
FirstWith(readings, ts, api_provider) ==
    IF raw_timestamp(Head(readings), api_provider) = ts THEN Head(readings)
    ELSE FirstWith(Tail(readings), ts, api_provider)

\* C4: whatever the accepted payload shape (a dict, a list of dicts, a list
\* of lists of dicts), the list flatten_data returns holds at most one entry
\* per raw timestamp, and that entry is the first one of the input with that
\* timestamp, also when the equal timestamps sit in different sub-lists.
C4_OneEntryPerTimestamp ==
    fl_result.st = "returned" =>
        LET out == fl_result.out
            input == IF fl_data.t = "list" THEN ReadingsInOrder(fl_data.items)
                     ELSE IF fl_provider = "solarman"
                     THEN ReadingsInOrder(fl_data.paramDataList)
                     ELSE ReadingsInOrder(<<fl_data>>)
        IN /\ \A i, j \in 1..Len(out) :
                  i # j => raw_timestamp(out[i], fl_provider) # raw_timestamp(out[j], fl_provider)
           /\ \A i \in 1..Len(out) :
                  out[i] = FirstWith(input, raw_timestamp(out[i], fl_provider), fl_provider)

\* the same timestamp in two different sub-lists, flattened
C4_NestedDuplicates ==
    /\ fl_result.st = "returned"
    /\ fl_data = ListNode(<<ListNode(<<DictNode(T1, None, Power(100))>>),
                            ListNode(<<DictNode(T1, None, Power(200))>>)>>)
    /\ fl_provider = "soliscloud"

(***************************************************************************)
(* Ingestion of vendor payloads as the adapters of the repository hand     *)
(* them over: flat lists of readings with string timestamps.               *)
(***************************************************************************)
Chars_0615 == <<"2", "0", "2", "4", "-", "0", "6", "-", "1", "0", " ",
                "0", "6", ":", "1", "5", ":", "0", "0">>
Chars_0620 == <<"2", "0", "2", "4", "-", "0", "6", "-", "1", "0", " ",
                "0", "6", ":", "2", "0", ":", "0", "0">>

\* a healthy reading at 06:15:00 (epoch string)
R_ok == DictNode(T1, None, [total_power |-> Num(500000), energy_today |-> Num(1250)])
\* a healthy reading at 06:20:00 (formatted)
R_fmt == DictNode(PyStr(Chars_0620), None, [total_power |-> Num(510000), pr |-> Num(8000)])
\* 06:25:00, total_power above 100000, the other channels in range
R_bad == DictNode(EpochStr(1718000700), None,
                  [total_power |-> Num(10000001), r_voltage |-> Num(23000),
                   rs_voltage |-> Num(41500)])
\* 06:30:00 and no channel at all
R_null == DictNode(EpochStr(1718001000), None, [pr |-> NoneV])
\* 06:15:00 again, written differently and with another power
R_dup == DictNode(PyStr(Chars_0615), None, [total_power |-> Num(999)])
\* a timestamp that is neither numeric nor formatted
R_badts == DictNode(PyStr(<<" ", "n", "/", "a">>), None, [total_power |-> Num(100)])
\* 06:13:20, off the five-minute grid
R_off == DictNode(EpochStr(1718000000), None, [total_power |-> Num(200)])

InsertReadings == {R_ok, R_fmt, R_bad, R_null, R_dup, R_badts, R_off}

MaxReadings == 2    \* longest payload

InsertPayloads == {ListNode(items) : items \in SeqsUpTo(InsertReadings, MaxReadings)}

\* what the sink may do during one call of a single batch
SinkEnvs == {[fail |-> f, log_db |-> l] : f \in {{}, {1}}, l \in {"up", "insert_fails", "down"}}

InsertInit ==
    /\ tables = EmptyTables
    /\ error_logs = <<>>
    /\ conn = CleanConn
    /\ job \in {InsertArgs(data, Device1, Customer1, p, is_real_time) :
                  data \in InsertPayloads, p \in Providers, is_real_time \in BOOLEAN}
    /\ last = NoCall
    /\ ingested = {}
    /\ calls = 0
    /\ run = NoRun
    /\ FlattenIdle

\* the payload is ingested once
Ingest == \E env \in SinkEnvs : ~last.called /\ InsertCall(env)

InsertNext == Ingest
SpecInsert == InsertInit /\ [][InsertNext]_vars

(***************************************************************************)
(* Repeated ingestion: the same payload is handed to insert_data_to_db     *)
(* again and again, as the scheduled run does for a device whose vendor    *)
(* returns the same ten days of history.                                   *)
(***************************************************************************)
\* healthy, the same instant written differently, out of range, empty
RepeatReadings == {R_ok, R_dup, R_bad, R_null}

RepeatPayloads == {ListNode(items) : items \in SeqsUpTo(RepeatReadings, MaxReadings)}

RepeatEnvs == {[fail |-> f, log_db |-> l] : f \in {{}, {1}}, l \in {"up", "down"}}

RepeatInit ==
    /\ tables = EmptyTables
    /\ error_logs = <<>>
    /\ conn = CleanConn
    /\ job \in {InsertArgs(data, Device1, Customer1, p, is_real_time) :
                  data \in RepeatPayloads, p \in Providers, is_real_time \in BOOLEAN}
    /\ last = NoCall
    /\ ingested = {}
    /\ calls = 0
    /\ run = NoRun
    /\ FlattenIdle

\* the payload is ingested, and may be ingested again
Reingest == \E env \in RepeatEnvs : InsertCall(env)

RepeatNext == Reingest
SpecRepeat == RepeatInit /\ [][RepeatNext]_vars

(***************************************************************************)
(* Properties of insert_data_to_db                                         *)
(***************************************************************************)
\* the rows the latest call handed to the sink in a successful executemany
RECURSIVE RowsOf(_)
RowsOf(execs) ==
    IF execs = <<>> THEN <<>>
    ELSE (IF Head(execs).ok THEN Head(execs).rows ELSE <<>>) \o RowsOf(Tail(execs))
Handed == RowsOf(last.execs)

\* the latest call ran on a clean connection against a sink that refused
\* nothing
SinkHealthy ==
    last.called /\ last.fresh /\ last.env.fail = {} /\ last.env.log_db = "up"

\* the readings of the payload at hand and what lines 410-430 make of their
\* timestamps
Readings == IF job.data.t = "list" THEN job.data.items ELSE <<>>
ParseOf(reading) ==
    parse_timestamp(PyOr(reading.timestamp, reading.collectTime), job.api_provider)

\* C1: ingesting a payload for a device again, after the sink accepted it
\* once, inserts nothing and changes no row: every table is left exactly as
\* it was.
C1_Idempotent == [][(job \in ingested) => (tables' = tables)]_vars

\* the payload was accepted, rows were written, and it was ingested again
C1_IngestedTwice ==
    /\ last.again /\ last.execs # <<>> /\ \A i \in 1..Len(last.execs) : last.execs[i].ok
    /\ ~last.raised
    /\ Len(tables[job.table_name]) >= 2

\* the value of a channel of a reading fails the check lines 435-494 make
OutOfRange(reading, key) ==
    \E i \in 1..Len(validation_checks) :
        /\ validation_checks[i].key = key
        /\ Has(reading, key)
        /\ ~validate_parameter(reading.ch[key], validation_checks[i].min,
                               validation_checks[i].max).valid

\* a payload of readings with distinct timestamps the pipeline accepts, of
\* which reading b alone has a value out of range, its total_power
OnlyPowerOutOfRange(b) ==
    /\ \A i \in 1..Len(Readings) : ParseOf(Readings[i]).st = "ok"
    /\ \A i, j \in 1..Len(Readings) :
          i # j => ParseOf(Readings[i]).entry_timestamp # ParseOf(Readings[j]).entry_timestamp
    /\ OutOfRange(Readings[b], "total_power")
    /\ \A i \in 1..Len(Readings) : \A key \in DOMAIN Readings[i].ch :
          OutOfRange(Readings[i], key) => (i = b /\ key = "total_power")

\* C2: of N readings with distinct valid timestamps, one of them with an
\* out-of-range total_power and everything else in range, N rows are
\* written, the offending row with total_power null and its other channels
\* as they came in, and exactly one error row is recorded, for total_power
\* and with the original value.
C2_OnlyTheFieldIsLost ==
    \A b \in 1..Len(Readings) :
        (SinkHealthy /\ OnlyPowerOutOfRange(b)) =>
            /\ Len(Handed) = Len(Readings)
            /\ \A i \in 1..Len(Readings) :
                  Handed[i].timestamp = ParseOf(Readings[i]).entry_timestamp
            /\ Handed[b].c["total_power"] = NoneV
            /\ \A key \in DOMAIN Readings[b].ch \ {"total_power"} :
                  Handed[b].c[key] = Readings[b].ch[key]
            /\ Len(last.logged) = 1
            /\ last.logged[1].field_name = "total_power"
            /\ last.logged[1].field_value = Readings[b].ch["total_power"]

\* the channels that carry a measurement ('state' is a status text that
\* defaults to 'unknown')
PhysicalChannels == default_keys \ {"state"}

\* C3: no row of any destination table has every physical channel null: a
\* reading left with device id and timestamp only is never written.
C3_NoAllNullRow ==
    \A t \in DOMAIN tables : \A i \in 1..Len(tables[t]) :
        \E key \in PhysicalChannels : tables[t][i].c[key] # NoneV

\* what strptime/fromtimestamp make of a reading's timestamp, the vendor
\* filter left aside
Parsed(reading) == parse_timestamp(PyOr(reading.timestamp, reading.collectTime), "soliscloud")

\* number of error rows the latest call recorded for a timestamp value
TimestampErrors(value) ==
    Cardinality({k \in 1..Len(last.logged) :
                    /\ last.logged[k].field_name = "timestamp"
                    /\ last.logged[k].field_value = value})

Digits14 == ToDigits(1718000100) \o <<"0", "0", "0", "0">>

NumericTimestamps ==
    {SubSeq(Digits14, 1, n) : n \in 9..14}
    \cup {ToDigits(1718000000) \o <<"0", "0", "0">>, TenPow12}

TimestampValues ==
    {PyInt(d) : d \in NumericTimestamps} \cup {PyStr(d) : d \in NumericTimestamps}

TimestampInit ==
    /\ tables = EmptyTables
    /\ error_logs = <<>>
    /\ conn = CleanConn
    /\ job \in {InsertArgs(ListNode(<<DictNode(ts, None, Power(100))>>), Device1, Customer1,
                           p, is_real_time) :
                  ts \in TimestampValues, p \in Providers, is_real_time \in BOOLEAN}
    /\ last = NoCall
    /\ ingested = {}
    /\ calls = 0
    /\ run = NoRun
    /\ FlattenIdle

SpecTimestamp == TimestampInit /\ [][InsertNext]_vars

\* the instant the claim assigns to a numeric timestamp of the given digits
ClaimedInstant(d) ==
    UtcOfEpoch(IF Len(StripZeros(d)) > 10
               THEN SubSeq(StripZeros(d), 1, Len(StripZeros(d)) - 3)
               ELSE StripZeros(d))

\* C9: a numeric timestamp (an int or an all-digit string) of more than 10
\* digits is written as the UTC second of value/1000, one of at most 10
\* digits as the UTC second of value; the vendor's five-minute filter left
\* aside.
C9_MillisecondsBeyondTenDigits ==
    \A i \in 1..Len(Readings) :
        (/\ SinkHealthy
         /\ Len(Readings) = 1
         /\ Readings[i].timestamp.k \in {"int", "str"}
         /\ isdigit(Readings[i].timestamp.s)
         /\ (job.api_provider = "shinemonitor" =>
                ClaimedInstant(Readings[i].timestamp.s).mi % 5 = 0))
        => /\ Len(Handed) = 1
           /\ Handed[1].timestamp = ClaimedInstant(Readings[i].timestamp.s)

(***************************************************************************)
(* Ingestion of a payload of several batches.                              *)
(***************************************************************************)
\* n readings five minutes apart, all healthy
Bulk(n) ==
    ListNode([i \in 1..n |-> DictNode(EpochStr(1718000100 + 300 * i), None, Power(100 + i))])

MaxBatches == 3     \* batches of the longest payload

\* payloads that end with a final batch of one reading
BulkPayloads == {Bulk((b - 1) * batch_size + 1) : b \in 2..MaxBatches}

BulkEnvs == {[fail |-> f, log_db |-> l] : f \in SUBSET (1..MaxBatches), l \in {"up", "down"}}

BulkInit ==
    /\ tables = EmptyTables
    /\ error_logs = <<>>
    /\ conn = CleanConn
    /\ job \in {InsertArgs(data, Device1, Customer1, p, is_real_time) :
                  data \in BulkPayloads, p \in {"soliscloud", "solarman"},
                  is_real_time \in BOOLEAN}
    /\ last = NoCall
    /\ ingested = {}
    /\ calls = 0
    /\ run = NoRun
    /\ FlattenIdle

\* the payload is ingested once
IngestBulk == \E env \in BulkEnvs : ~last.called /\ InsertCall(env)

BulkNext == IngestBulk
SpecBatch == BulkInit /\ [][BulkNext]_vars

\* row is among the committed rows of the table
Committed(t, row) == \E i \in 1..Len(tables[t]) : tables[t][i] = row

\* C5: when the upsert of a batch fails, only the rows of that batch are
\* missing from the sink afterwards: the rows of every other batch, earlier
\* or later, are committed, and insert_data_to_db does not raise.
C5_OnlyTheFailedBatchIsLost ==
    (last.called /\ last.env.log_db = "up") =>
        /\ ~last.raised
        /\ \A k \in 1..Len(last.execs) :
              k \notin last.env.fail =>
                  \A i \in 1..Len(last.execs[k].rows) :
                      Committed(last.execs[k].table, last.execs[k].rows[i])

(***************************************************************************)
(* The run: fetch_historic_data (lines 657-853) over the credentials of    *)
(* users.csv.  A vendor account that answers has one plant; the plant has  *)
(* up to MaxDevices devices.  What the vendor, the sink and the error-log  *)
(* connection do during a step is the step's env.  The adapters are called *)
(* as the script calls them: ShineMonitor through the functions of         *)
(* shinemonitor_api.py that carry the names the script uses.               *)
(***************************************************************************)
Lowercase == {"a", "b", "c", "d", "e", "f", "g", "h", "i", "j", "k", "l", "m",
              "n", "o", "p", "q", "r", "s", "t", "u", "v", "w", "x", "y", "z"}
Uppercase == {"A", "B", "C", "D", "E", "F", "G", "H", "I", "J", "K", "L", "M",
              "N", "O", "P", "Q", "R", "S", "T", "U", "V", "W", "X", "Y", "Z"}

\* str.isspace(): non-empty and every character whitespace
isspace(s) == s # <<>> /\ \A i \in 1..Len(s) : s[i] \in {" ", "\n", "\t"}

\* what $ leaves of s: the string without one final newline
before_dollar(s) ==
    IF s # <<>> /\ s[Len(s)] = "\n" THEN SubSeq(s, 1, Len(s) - 1) ELSE s

\* re.match(r'^[a-zA-Z0-9_]+$', s)
re_match_identifier(s) ==
    /\ before_dollar(s) # <<>>
    /\ \A i \in 1..Len(before_dollar(s)) :
          before_dollar(s)[i] \in Lowercase \cup Uppercase \cup Digits \cup {"_"}

max_identifier_len == 63

\* lines 110-118
validate_customer_id(customer_id) ==
    IF customer_id = <<>> \/ isspace(customer_id)
    THEN [valid |-> FALSE, error |-> "empty_or_whitespace"]
    ELSE IF ~re_match_identifier(customer_id)
    THEN [valid |-> FALSE, error |-> "not_alphanumeric_or_underscore"]
    ELSE IF Len(customer_id) > max_identifier_len
    THEN [valid |-> FALSE, error |-> "too_long"]
    ELSE [valid |-> TRUE, error |-> "none"]

\* a row of users.csv; api_key stands for api_key and api_secret
Credential(user_id, customer_id, api_provider, api_key) ==
    [user_id |-> user_id, customer_id |-> customer_id, api_provider |-> api_provider,
     api_key |-> api_key]

default_customer ==
    <<"d", "e", "f", "a", "u", "l", "t", "_", "c", "u", "s", "t", "o", "m", "e", "r">>

\* line 152: the customer ids of the credentials, each once, in the order
\* of their first row
first_rows(credentials) ==
    SelectSeq([i \in 1..Len(credentials) |-> i],
              LAMBDA i : \A j \in 1..(i - 1) :
                            credentials[j].customer_id # credentials[i].customer_id)
customer_ids(credentials) ==
    IF credentials = <<>> THEN <<default_customer>>
    ELSE [k \in 1..Len(first_rows(credentials)) |->
             credentials[first_rows(credentials)[k]].customer_id]

\* lines 157-164
valid_customer_ids(ids) == SelectSeq(ids, LAMBDA c : validate_customer_id(c).valid)
invalid_customer_ids(ids) == SelectSeq(ids, LAMBDA c : ~validate_customer_id(c).valid)

\* lines 204-205: the rows that carry a user_id
with_user_id(csv) == SelectSeq(csv, LAMBDA row : row.user_id # "")

\* the error_logs rows load_credentials_to_db and load_customers_to_db ask
\* for, in the order of the calls: rows without user_id (206), invalid
\* customer ids (164), refused customers (182), and per credential an invalid
\* customer (231) or a refused insert (250)
csv_row_errors(csv) ==
    [k \in 1..Len(SelectSeq(csv, LAMBDA row : row.user_id = "")) |->
        ErrorRow(None, None, None, "csv_row", None, "Missing user_id")]
customer_id_errors(ids) ==
    [k \in 1..Len(invalid_customer_ids(ids)) |->
        ErrorRow(None, None, None, "customer_id", invalid_customer_ids(ids)[k],
                 validate_customer_id(invalid_customer_ids(ids)[k]).error)]
insert_customer_errors(ids, insert_ok) ==
    IF insert_ok THEN <<>>
    ELSE [k \in 1..Len(valid_customer_ids(ids)) |->
             ErrorRow(valid_customer_ids(ids)[k], None, None, "insert_customer",
                      valid_customer_ids(ids)[k], "exception")]
refused(credentials, insert_ok) ==
    SelectSeq(credentials,
              LAMBDA c : ~validate_customer_id(c.customer_id).valid \/ ~insert_ok)
credential_errors(credentials, insert_ok) ==
    [k \in 1..Len(refused(credentials, insert_ok)) |->
        IF ~validate_customer_id(refused(credentials, insert_ok)[k].customer_id).valid
        THEN ErrorRow(None, None, refused(credentials, insert_ok)[k].api_provider,
                      "customer_id", refused(credentials, insert_ok)[k].customer_id,
                      "Customer ID not in customers table")
        ELSE ErrorRow(refused(credentials, insert_ok)[k].customer_id, None,
                      refused(credentials, insert_ok)[k].api_provider, "insert_credential",
                      refused(credentials, insert_ok)[k].user_id, "exception")]

\* lines 221-224: without a valid customer the credentials are not visited
load_errors(csv, credentials, ids, insert_ok) ==
    csv_row_errors(csv) \o customer_id_errors(ids)
    \o (IF valid_customer_ids(ids) = <<>> THEN <<>>
        ELSE insert_customer_errors(ids, insert_ok)
             \o credential_errors(credentials, insert_ok))

Range(seq) == {seq[i] : i \in 1..Len(seq)}

\* what load_credentials_to_db leaves behind
Loaded(raised, elog, credentials, customers, api_credentials) ==
    [raised |-> raised, error_logs |-> elog, credentials |-> credentials,
     customers |-> customers, api_credentials |-> api_credentials]

\* lines 221-259, once the errors went to log_error_to_db: a logging that
\* raises ends the load (188-191, 256-259); otherwise every credential is
\* returned (255), valid customer or not, unless no customer is valid (224)
load_logged(logged, credentials, ids, insert_ok) ==
    IF logged.raised THEN Loaded(TRUE, logged.error_logs, <<>>, {}, {})
    ELSE IF valid_customer_ids(ids) = <<>>
    THEN Loaded(FALSE, logged.error_logs, <<>>, {}, {})
    ELSE Loaded(FALSE, logged.error_logs, credentials,
                IF insert_ok THEN Range(valid_customer_ids(ids)) ELSE {},
                IF insert_ok
                THEN {c.user_id : c \in {d \in Range(credentials) :
                                            validate_customer_id(d.customer_id).valid}}
                ELSE {})

loaded_rows(elog, csv, credentials, ids, env) ==
    load_logged(log_error_to_db(elog, load_errors(csv, credentials, ids, env.insert_ok),
                                env.log_db),
                credentials, ids, env.insert_ok)

\* load_credentials_to_db with load_customers_to_db (lines 149-259);
\* env.csv is whether users.csv can be read, env.insert_ok whether the sink
\* takes the customers and api_credentials rows
load_credentials_to_db(elog, csv, env) ==
    IF ~env.csv THEN Loaded(TRUE, elog, <<>>, {}, {})
    ELSE loaded_rows(elog, csv, with_user_id(csv), customer_ids(with_user_id(csv)), env)

\* lines 847-851: the run's own except clause
run_error(elog, log_db) ==
    log_error_to_db(elog, <<ErrorRow(None, None, None, "fetch_historic_data", None,
                                     "exception")>>, log_db).error_logs

(***************************************************************************)
(* One device (lines 764-843).  s is the sink as the step finds it and     *)
(* what the step has done so far; status is "running" until the device is  *)
(* "written", "skipped" or "failed", "raised" while an exception of        *)
(* insert_data_to_db is on its way to the except clause, and "aborted"     *)
(* when an exception leaves the device loop.                               *)
(***************************************************************************)
DeviceState(tbls, cn, elog) ==
    [tables |-> tbls, conn |-> cn, error_logs |-> elog, status |-> "running",
     inserts |-> {}, registered |-> FALSE, aggregated |-> FALSE]

\* log_error_to_db, conn.rollback(), continue (786-790, 839-843); a logging
\* that raises leaves the loop
failure_logged(s, logged) ==
    IF logged.raised THEN [s EXCEPT !.status = "aborted"]
    ELSE [s EXCEPT !.error_logs = logged.error_logs, !.conn = CleanConn,
                   !.status = "failed"]

device_except(s, cred, device_sn, field_name, ev) ==
    failure_logged(s, log_error_to_db(s.error_logs,
                          <<ErrorRow(cred.customer_id, device_sn, cred.api_provider,
                                     field_name, device_sn, "exception")>>,
                          ev.log_db))

\* log_error_to_db inside the try block (811, 831): when it raises, the
\* except clause of line 839 logs again, which raises again
absence_logged(s, logged, status) ==
    IF logged.raised THEN [s EXCEPT !.status = "aborted"]
    ELSE [s EXCEPT !.error_logs = logged.error_logs, !.status = status]

no_data(s, cred, device_sn, field_name, ev, status) ==
    absence_logged(s, log_error_to_db(s.error_logs,
                          <<ErrorRow(cred.customer_id, device_sn, cred.api_provider,
                                     field_name, device_sn, "no_data")>>,
                          ev.log_db),
                   status)

\* lines 766-790: the devices row
device_registered(s, cred, device_sn, ev) ==
    IF ev.device_insert
    THEN [s EXCEPT !.tables = commit(s.tables, s.conn), !.conn = CleanConn,
                   !.registered = TRUE]
    ELSE device_except(s, cred, device_sn, "insert_device", ev)

\* an insert_data_to_db call of the run, as the properties see it
InsertRecord(a, r, tbls) ==
    [customer_id |-> a.customer_id, device_sn |-> a.device_sn,
     is_real_time |-> a.is_real_time, table_name |-> a.table_name,
     wrote |-> r.tables # tbls]

inserted(s, r, a) ==
    [s EXCEPT !.tables = r.tables, !.conn = r.conn, !.error_logs = r.error_logs,
              !.inserts = @ \cup {InsertRecord(a, r, s.tables)},
              !.status = IF r.raised THEN "raised" ELSE "running"]

\* lines 808 and 835
call_insert(s, a, ev) ==
    inserted(s, insert_data_to_db(s.tables, s.conn, s.error_logs, a, ev), a)

\* line 839, for what insert_data_to_db raised
insert_caught(s, cred, device_sn, ev) ==
    IF s.status = "raised"
    THEN device_except([s EXCEPT !.status = "running"], cred, device_sn, "fetch_data", ev)
    ELSE s

\* what the vendor answers in this model
RealTimeResponse ==
    DictNode(T1, None, [total_power |-> Num(500000), energy_today |-> Num(1250)])
HistoricalData ==
    ListNode(<<DictNode(T1, None, [total_power |-> Num(500000)]),
               DictNode(T2, None, [total_power |-> Num(510000)])>>)

\* lines 792-811
real_time_fetched(s, cred, device_sn, ev) ==
    IF s.status # "running" THEN s
    ELSE CASE ev.real_time = "raise" -> device_except(s, cred, device_sn, "fetch_data", ev)
           [] ev.real_time = "empty" ->
                 no_data(s, cred, device_sn, "fetch_real_time", ev, "running")
           [] OTHER ->
                 insert_caught(call_insert(s, InsertArgs(RealTimeResponse, device_sn,
                                                         cred.customer_id,
                                                         cred.api_provider, TRUE), ev),
                               cred, device_sn, ev)

\* lines 833-835
historical_flattened(s, flat, cred, device_sn, ev) ==
    IF flat.raised THEN device_except(s, cred, device_sn, "fetch_data", ev)
    ELSE insert_caught(call_insert(s, InsertArgs(ListNode(flat.out), device_sn,
                                                 cred.customer_id, cred.api_provider,
                                                 FALSE), ev),
                       cred, device_sn, ev)

\* lines 813-835
historical_fetched(s, cred, device_sn, ev) ==
    IF s.status # "running" THEN s
    ELSE CASE ev.historical = "raise" -> device_except(s, cred, device_sn, "fetch_data", ev)
           [] ev.historical = "empty" ->
                 no_data(s, cred, device_sn, "fetch_historical", ev, "skipped")
           [] OTHER ->
                 historical_flattened(s, flatten_data(HistoricalData, cred.api_provider),
                                      cred, device_sn, ev)

\* line 837: aggregate_daily_data (581-620) commits, or rolls back and raises
aggregate_daily_data(s, cred, device_sn, ev) ==
    IF s.status # "running" THEN s
    ELSE IF ev.aggregate
    THEN [s EXCEPT !.tables = commit(s.tables, s.conn), !.conn = CleanConn,
                   !.aggregated = TRUE, !.status = "written"]
    ELSE device_except([s EXCEPT !.conn = CleanConn], cred, device_sn, "fetch_data", ev)

\* the body of the device loop
process_device(s, cred, device_sn, ev) ==
    aggregate_daily_data(
        historical_fetched(
            real_time_fetched(device_registered(s, cred, device_sn, ev),
                              cred, device_sn, ev),
            cred, device_sn, ev),
        cred, device_sn, ev)

(***************************************************************************)
(* The steps of the run                                                    *)
(***************************************************************************)
MaxCredentials == 2     \* rows of users.csv
MaxDevices == 2         \* devices of a plant

Customer1Lower == <<"c", "1">>      \* another customer: ids are case-sensitive
BadCustomer == <<"C", "1", ";">>    \* fails validate_customer_id

CsvRows ==
    {Credential("u", c, p, TRUE) :
        c \in {Customer1, Customer1Lower, BadCustomer}, p \in Providers}
    \cup {Credential("u", Customer1, "soliscloud", FALSE),
          Credential("", Customer1, "soliscloud", TRUE)}

\* users.csv: one row, or several rows after a healthy SolisCloud account of
\* Customer1
CsvFiles ==
    {csv \in SeqsUpTo(CsvRows, MaxCredentials) :
        /\ csv # <<>>
        /\ Len(csv) > 1 => csv[1] = Credential("u", Customer1, "soliscloud", TRUE)}

\* the tables of the deployment: the shared historical table and one table
\* per customer with a valid id
RunTables ==
    [t \in {Historical}
           \cup {CustomerTable(lower(c)) :
                    c \in {d \in {Customer1, Customer1Lower, BadCustomer} :
                              validate_customer_id(d).valid}} |-> <<>>]

RunInit ==
    /\ tables = RunTables
    /\ error_logs = <<>>
    /\ conn = CleanConn
    /\ job = NoCall.a
    /\ last = NoCall
    /\ ingested = {}
    /\ calls = 0
    /\ FlattenIdle
    /\ run \in {[NoRun EXCEPT !.pc = "start", !.csv = csv] : csv \in CsvFiles}

idleVars == <<fl_data, fl_provider, fl_result, job, last, ingested, calls>>

\* the run ends with an exception (847-853): logged, rolled back, closed
Aborted(log_db) ==
    /\ error_logs' = run_error(error_logs, log_db)
    /\ conn' = CleanConn
    /\ tables' = tables
    /\ run' = [run EXCEPT !.pc = "aborted"]

\* the credential after ci comes up
NextCredential(r) == [r EXCEPT !.pc = "credential", !.ci = @ + 1, !.n = 0, !.di = 0]

StartEnvs ==
    {[sink |-> s, csv |-> c, insert_ok |-> i, log_db |-> l] :
        s \in BOOLEAN, c \in BOOLEAN, i \in BOOLEAN, l \in {"up", "down"}}

\* lines 657-667: connect, load the credentials
Start ==
    /\ run.pc = "start"
    /\ \E env \in StartEnvs :
          IF ~env.sink
          THEN /\ run' = [run EXCEPT !.pc = "aborted"]
               /\ UNCHANGED <<tables, error_logs, conn>>
          ELSE \E r \in {load_credentials_to_db(error_logs, run.csv, env)} :
                  /\ tables' = tables
                  /\ conn' = CleanConn
                  /\ error_logs' = IF r.raised THEN run_error(r.error_logs, env.log_db)
                                   ELSE r.error_logs
                  /\ run' = [run EXCEPT
                                !.pc = IF r.raised THEN "aborted"
                                       ELSE IF r.credentials = <<>> THEN "exited"
                                       ELSE "credential",
                                !.loaded = ~r.raised /\ r.credentials # <<>>,
                                !.credentials = r.credentials,
                                !.customers = r.customers,
                                !.api_credentials = r.api_credentials,
                                !.ci = 1]
    /\ UNCHANGED idleVars

CredentialEnvs ==
    {[plants |-> p, log_db |-> l] : p \in {"raise", "empty", "plants"}, l \in {"up", "down"}}

\* what fetch_plants does (712): SolarmanAPI.get_plant_list takes no
\* argument besides self, so the call with user_id, username and password
\* raises TypeError
fetch_plants(cred, env) == IF cred.api_provider = "solarman" THEN "raise" ELSE env.plants

\* lines 679-695: a SolisCloud or Solarman credential without key or secret
missing_keys(cred) == cred.api_provider \in {"soliscloud", "solarman"} /\ ~cred.api_key

\* lines 669-720: the credential's adapter is chosen and its plants fetched
CredentialStep ==
    /\ run.pc = "credential"
    /\ run.ci <= Len(run.credentials)
    /\ \E env \in CredentialEnvs : \E cred \in {run.credentials[run.ci]} :
          IF ~missing_keys(cred) /\ fetch_plants(cred, env) = "plants"
          THEN /\ run' = [run EXCEPT !.pc = "plant"]
               /\ UNCHANGED <<tables, error_logs, conn>>
          ELSE \E logged \in {log_error_to_db(error_logs,
                                  <<ErrorRow(cred.customer_id, None, cred.api_provider,
                                             IF missing_keys(cred) THEN "api_credentials"
                                             ELSE "fetch_plants",
                                             cred.user_id, "skipped")>>,
                                  env.log_db)} :
                  IF logged.raised THEN Aborted(env.log_db)
                  ELSE /\ error_logs' = logged.error_logs
                       /\ run' = NextCredential(run)
                       /\ UNCHANGED <<tables, conn>>
    /\ UNCHANGED idleVars

PlantEnvs ==
    {[plant_insert |-> i, devices |-> d, n |-> n, log_db |-> l] :
        i \in BOOLEAN, d \in {"raise", "empty", "devices"}, n \in 1..MaxDevices,
        l \in {"up", "down"}}

\* the serial number of device di of the plant of credential ci
DeviceSn(ci, di) == <<ci, di>>

\* lines 723-762: the plants row, then the plant's devices are fetched
PlantStep ==
    /\ run.pc = "plant"
    /\ \E env \in PlantEnvs : \E cred \in {run.credentials[run.ci]} :
          IF env.plant_insert /\ env.devices = "devices"
          THEN /\ tables' = commit(tables, conn)
               /\ conn' = CleanConn
               /\ error_logs' = error_logs
               /\ run' = [run EXCEPT !.pc = "device", !.plants = @ \cup {run.ci},
                                     !.n = env.n, !.di = 1,
                                     !.listed = @ \cup {DeviceSn(run.ci, d) :
                                                           d \in 1..env.n}]
          ELSE \E logged \in {log_error_to_db(error_logs,
                                  <<ErrorRow(cred.customer_id, None, cred.api_provider,
                                             IF ~env.plant_insert THEN "insert_plant"
                                             ELSE "fetch_devices",
                                             run.ci, "skipped")>>,
                                  env.log_db)} :
                  IF logged.raised THEN Aborted(env.log_db)
                  ELSE /\ error_logs' = logged.error_logs
                       /\ tables' = IF env.plant_insert THEN commit(tables, conn) ELSE tables
                       /\ conn' = CleanConn
                       /\ run' = [NextCredential(run) EXCEPT
                                     !.plants = IF env.plant_insert THEN @ \cup {run.ci}
                                                ELSE @]
    /\ UNCHANGED idleVars

\* what may happen while a device is processed; the sink refuses no batch
\* during a run
DeviceEnvs ==
    {[device_insert |-> d, real_time |-> rt, historical |-> h, aggregate |-> a,
      fail |-> {}, log_db |-> l] :
        d \in BOOLEAN, rt \in {"raise", "empty", "data"},
        h \in {"raise", "empty", "data"}, a \in BOOLEAN, l \in {"up", "down"}}

\* the envs that differ in something the device's processing reaches; a
\* device without real-time data has historical data
ReachedEnvs ==
    {ev \in DeviceEnvs :
        /\ (~ev.device_insert \/ ev.real_time # "data") =>
              (ev.historical = "data" /\ ev.aggregate)
        /\ ~ev.device_insert => ev.real_time = "data"
        /\ ev.historical # "data" => ev.aggregate}

\* lines 764-843: one pass of the device loop
DeviceStep ==
    /\ run.pc = "device"
    /\ \E ev \in ReachedEnvs :
          \E s \in {process_device(DeviceState(tables, conn, error_logs),
                                   run.credentials[run.ci], DeviceSn(run.ci, run.di), ev)} :
              IF s.status = "aborted"
              THEN /\ error_logs' = run_error(s.error_logs, ev.log_db)
                   /\ conn' = CleanConn
                   /\ tables' = s.tables
                   /\ run' = [run EXCEPT !.pc = "aborted",
                                         !.finished = @ \cup {[device_sn |-> DeviceSn(run.ci, run.di),
                                                               outcome |-> "raised"]},
                                         !.inserts = @ \cup s.inserts,
                                         !.devices = IF s.registered
                                                     THEN @ \cup {DeviceSn(run.ci, run.di)}
                                                     ELSE @]
              ELSE /\ tables' = s.tables
                   /\ conn' = s.conn
                   /\ error_logs' = s.error_logs
                   /\ run' = [(IF run.di < run.n THEN [run EXCEPT !.di = @ + 1]
                               ELSE NextCredential(run)) EXCEPT
                                 !.inserts = @ \cup s.inserts,
                                 !.devices = IF s.registered
                                             THEN @ \cup {DeviceSn(run.ci, run.di)} ELSE @,
                                 !.daily = IF s.aggregated
                                           THEN @ \cup {DeviceSn(run.ci, run.di)} ELSE @,
                                 !.finished = @ \cup {[device_sn |-> DeviceSn(run.ci, run.di),
                                                       outcome |-> s.status]}]
    /\ UNCHANGED idleVars

FinishEnvs == {[refresh |-> r, log_db |-> l] : r \in BOOLEAN, l \in {"up", "down"}}

\* lines 845-853: every credential was visited; refresh_customer_metrics
\* (622-655) commits, or logs, rolls back and raises
Finish ==
    /\ run.pc = "credential"
    /\ run.ci > Len(run.credentials)
    /\ \E env \in FinishEnvs :
          IF env.refresh
          THEN /\ tables' = commit(tables, conn)
               /\ conn' = CleanConn
               /\ error_logs' = error_logs
               /\ run' = [run EXCEPT !.pc = "done"]
          ELSE /\ error_logs' =
                     run_error(log_error_to_db(error_logs,
                                   <<ErrorRow(None, None, None, "refresh_customer_metrics",
                                              None, "exception")>>,
                                   env.log_db).error_logs,
                               env.log_db)
               /\ conn' = CleanConn
               /\ tables' = tables
               /\ run' = [run EXCEPT !.pc = "failed"]
    /\ UNCHANGED idleVars

RunNext == Start \/ CredentialStep \/ PlantStep \/ DeviceStep \/ Finish
SpecRun == RunInit /\ [][RunNext]_vars

(***************************************************************************)
(* Properties of the run                                                   *)
(***************************************************************************)
\* the run is over
RunOver == run.pc \in {"done", "failed", "aborted", "exited"}

\* C6: in a run whose credentials were loaded, every device of a plant is
\* processed to an outcome, whatever fails while another device is
\* processed: when the run is over, every listed device was written, skipped
\* for no data, or failed (the device whose failure ended the run included).
C6_EveryDeviceReachesAnOutcome ==
    (run.loaded /\ RunOver) =>
        \A d \in run.listed : \E f \in run.finished :
            f.device_sn = d /\ f.outcome \in {"written", "skipped", "failed", "raised"}

\* C7: insert_data_to_db is reached only for credentials whose customer_id
\* passed validate_customer_id, so that every table name of an INSERT is
\* built from a validated id.
C7_OnlyValidatedCustomersReachTheSink ==
    \A c \in run.inserts : validate_customer_id(c.customer_id).valid

\* C8: a row written with is_real_time = true is in the table
\* customer_<lower-cased customer_id>_device_data of its own customer, not in
\* device_data_historical and not in the table of another customer of the
\* run; a row written with is_real_time = false is in device_data_historical.
C8_RowsInTheirOwnTable ==
    \A w \in run.inserts :
        w.wrote =>
            IF w.is_real_time
            THEN /\ w.table_name = CustomerTable(lower(w.customer_id))
                 /\ \A i \in 1..Len(run.credentials) :
                       run.credentials[i].customer_id # w.customer_id =>
                           w.table_name # table_name_of(run.credentials[i].customer_id, TRUE)
            ELSE w.table_name = Historical

(***************************************************************************)
(* Range validation: one reading at 06:15:00 whose channels hold values at *)
(* and next to the bounds of their checks, as floats, as numeric strings   *)
(* and as text.                                                            *)
(***************************************************************************)
\* the values tried for a channel checked against [lo, hi]
BoundaryValues(lo, hi) ==
    {Num(lo * 100 - 1), Num(lo * 100), Num(hi * 100), Num(hi * 100 + 1),
     NumStr(hi * 100), NumStr(hi * 100 + 1), Text(1)}

\* readings with one validated channel, and readings with a PV voltage and a
\* total power
RangeReadings ==
    {DictNode(T1, None, [k \in {validation_checks[i].key} |-> v]) :
        i \in 1..Len(validation_checks),
        v \in UNION {BoundaryValues(validation_checks[j].min, validation_checks[j].max) :
                        j \in 1..Len(validation_checks)}}
    \cup
    {DictNode(T1, None, [pv01_voltage |-> v, total_power |-> w]) :
        v \in BoundaryValues(0, 1000), w \in BoundaryValues(0, 100000)}

RangeInit ==
    /\ tables = EmptyTables
    /\ error_logs = <<>>
    /\ conn = CleanConn
    /\ job \in {InsertArgs(ListNode(<<reading>>), Device1, Customer1, p, is_real_time) :
                  reading \in RangeReadings, p \in Providers, is_real_time \in BOOLEAN}
    /\ last = NoCall
    /\ ingested = {}
    /\ calls = 0
    /\ run = NoRun
    /\ FlattenIdle

SpecRange == RangeInit /\ [][InsertNext]_vars

\* the range stated for a channel, in units
StatedRange(key) ==
    CASE key \in {pv_key(j, "voltage") : j \in 1..12} -> <<0, 1000>>
      [] key \in {pv_key(j, "current") : j \in 1..12} -> <<0, 50>>
      [] key \in {"r_voltage", "s_voltage", "t_voltage"} -> <<0, 300>>
      [] key \in {"r_current", "s_current", "t_current"} -> <<0, 100>>
      [] key = "total_power" -> <<0, 100000>>
      [] key = "energy_today" -> <<0, 1000>>
      [] key = "pr" -> <<0, 100>>
      [] key = "frequency" -> <<0, 70>>
      [] key = "reactive_power" -> <<(-100000), 100000>>

ValidatedChannels ==
    PvCols \cup PhaseCols \cup
    {"total_power", "energy_today", "pr", "frequency", "reactive_power"}

\* a numeric value within the stated range, bounds included
InStatedRange(key, value) ==
    /\ value.k \in {"num", "numstr"}
    /\ StatedRange(key)[1] * 100 <= value.v
    /\ value.v <= StatedRange(key)[2] * 100

\* the error rows the latest call recorded for a field
ErrorsFor(key) == {k \in 1..Len(last.logged) : last.logged[k].field_name = key}

\* the channels of a reading that reach the checks of lines 435-494: those
\* the vendor's branch of normalize_data_entry copies
Validated(reading) ==
    {key \in DOMAIN reading.ch \cap ValidatedChannels \cap mapped_keys(job.api_provider) :
        reading.ch[key] # NoneV}

\* C11: for every validated channel of a reading the value is kept in the
\* row exactly when it is numeric and min <= v <= max, both bounds included,
\* with the stated ranges; any other value is replaced by null and exactly
\* one error row holding the original value is recorded for the field; the
\* reading itself is written.
C11_InclusiveRange ==
    (SinkHealthy /\ Len(Readings) = 1 /\ ParseOf(Readings[1]).st = "ok") =>
        /\ Len(Handed) = 1
        /\ \A key \in Validated(Readings[1]) :
              IF InStatedRange(key, Readings[1].ch[key])
              THEN /\ Handed[1].c[key] = Readings[1].ch[key]
                   /\ ErrorsFor(key) = {}
              ELSE /\ Handed[1].c[key] = NoneV
                   /\ Cardinality(ErrorsFor(key)) = 1
                   /\ \A k \in ErrorsFor(key) :
                          last.logged[k].field_value = Readings[1].ch[key]

\* a PV voltage of exactly 1000 was kept while the total power of the same
\* reading, one hundredth above 100000, was replaced by null and recorded
C11_BoundKeptAboveNulled ==
    /\ SinkHealthy
    /\ Len(Readings) = 1
    /\ Validated(Readings[1]) = {"pv01_voltage", "total_power"}
    /\ Readings[1].ch["pv01_voltage"] = Num(100000)
    /\ Readings[1].ch["total_power"] = Num(10000001)
    /\ Len(Handed) = 1
    /\ Handed[1].c["pv01_voltage"] = Num(100000)
    /\ Handed[1].c["total_power"] = NoneV
    /\ Len(last.logged) = 1
    /\ Len(tables[job.table_name]) = 1

(***************************************************************************)
(* The vendor adapters at the level of HTTP requests.  An exchange is the  *)
(* sequence of requests sent so far, each with the answer it got; h says   *)
(* what the (k)th request of the exchange is answered with: "timeout" (a   *)
(* requests.RequestException), "error" (the vendor answers and reports a   *)
(* failure), "denied" (the vendor reports a permission failure) or "ok".   *)
(***************************************************************************)
Answers == {"timeout", "error", "denied", "ok"}

MaxAnswers == 2     \* requests whose answers differ; later ones repeat the last

Exchange(h) == [h |-> h, sent |-> <<>>]
AnswerTo(x) == x.h[IF Len(x.sent) < Len(x.h) THEN Len(x.sent) + 1 ELSE Len(x.h)]

\* requests.get / requests.post, raise_for_status, response.json(); day is
\* the day of history the request asks for (0: none)
Send(x, endpoint, day) ==
    [x EXCEPT !.sent = Append(@, [endpoint |-> endpoint, day |-> day,
                                  answer |-> AnswerTo(x)])]
LastAnswer(x) == x.sent[Len(x.sent)].answer

\* what an adapter call gives the caller: result is "data", "empty" (an
\* empty list or dict, None), "transport" (a RequestException is raised) or
\* "raise" (any other exception)
Fetched(x, result) == [net |-> x, result |-> result]

max_retries == 3            \* SolisCloudAPI.make_request
stop_after_attempt == 3     \* the retry decorators of fetch_historic_data
history_days == 11          \* start_date = today - 10 days, end_date = today

\* SolisCloudAPI.make_request (54-113): attempt counts from 0
RECURSIVE make_request(_, _, _, _)
answered(x, endpoint, day, attempt) ==
    CASE LastAnswer(x) = "ok" -> Fetched(x, "data")
      [] LastAnswer(x) = "denied" -> Fetched(x, "empty")
      [] OTHER -> IF attempt < max_retries - 1
                  THEN make_request(x, endpoint, day, attempt + 1)
                  ELSE Fetched(x, "empty")
make_request(x, endpoint, day, attempt) ==
    answered(Send(x, endpoint, day), endpoint, day, attempt)

\* SolisCloudAPI.get_inverter_real_time_data (194-229)
get_inverter_real_time_data(x) == make_request(x, "inverterDetail", 0, 0)

\* SolisCloudAPI.get_inverter_historical_data (231-380): the station list,
\* then one request per day (a day's records fit one page)
RECURSIVE inverter_days(_, _, _)
inverter_day(r, day, result) ==
    inverter_days(r.net, day + 1, IF r.result = "data" THEN "data" ELSE result)
inverter_days(x, day, result) ==
    IF day > history_days THEN Fetched(x, result)
    ELSE inverter_day(make_request(x, "inverterDay", day, 0), day, result)
get_inverter_historical_data(x) ==
    inverter_days(make_request(x, "userStationList", 0, 0).net, 1, "empty")

\* shinemonitor_api.authenticate (30-54): the exchange after the request;
\* secret and token are there when the answer is "ok"
authenticate(x) == Send(x, "auth", 0)

\* shinemonitor_api.fetch_current_data (334-443)
current_day(x) ==
    Fetched(x, IF LastAnswer(x) = "ok" THEN "data" ELSE "empty")
fetch_current_data(x) ==
    IF LastAnswer(authenticate(x)) # "ok" THEN Fetched(authenticate(x), "empty")
    ELSE current_day(Send(authenticate(x), "queryDeviceDataOneDay", 0))

\* shinemonitor_api.fetch_historical_data (165-332)
RECURSIVE historical_days(_, _, _)
historical_day(x, day, result) ==
    CASE LastAnswer(x) = "timeout" -> Fetched(x, "empty")
      [] LastAnswer(x) = "ok" -> historical_days(x, day + 1, "data")
      [] OTHER -> historical_days(x, day + 1, result)
historical_days(x, day, result) ==
    IF day > history_days THEN Fetched(x, result)
    ELSE historical_day(Send(x, "queryDeviceDataOneDay", day), day, result)
fetch_historical_data(x) ==
    IF LastAnswer(authenticate(x)) # "ok" THEN Fetched(authenticate(x), "empty")
    ELSE historical_days(authenticate(x), 1, "empty")

\* fetch_real_time and fetch_historical as lines 685-707 bind them.  The
\* Solarman methods take (device, ...): called with user_id, username,
\* password and device they raise TypeError before any request
fetch_real_time(api_provider, x) ==
    CASE api_provider = "soliscloud" -> get_inverter_real_time_data(x)
      [] api_provider = "solarman" -> Fetched(x, "raise")
      [] OTHER -> fetch_current_data(x)
fetch_historical(api_provider, x) ==
    CASE api_provider = "soliscloud" -> get_inverter_historical_data(x)
      [] api_provider = "solarman" -> Fetched(x, "raise")
      [] OTHER -> fetch_historical_data(x)

\* the retry decorator (794-798, 815-819): the call is repeated while it
\* raises a RequestException, three times at most; then RetryError is raised
Attempted(r, attempts) == [net |-> r.net, result |-> r.result, attempts |-> attempts]
RECURSIVE fetch_real_time_with_retry(_, _, _)
real_time_attempted(r, api_provider, attempt) ==
    IF r.result = "transport"
    THEN (IF attempt < stop_after_attempt
          THEN fetch_real_time_with_retry(api_provider, r.net, attempt + 1)
          ELSE Attempted(Fetched(r.net, "raise"), attempt))
    ELSE Attempted(r, attempt)
fetch_real_time_with_retry(api_provider, x, attempt) ==
    real_time_attempted(fetch_real_time(api_provider, x), api_provider, attempt)

RECURSIVE fetch_historical_with_retry(_, _, _)
historical_attempted(r, api_provider, attempt) ==
    IF r.result = "transport"
    THEN (IF attempt < stop_after_attempt
          THEN fetch_historical_with_retry(api_provider, r.net, attempt + 1)
          ELSE Attempted(Fetched(r.net, "raise"), attempt))
    ELSE Attempted(r, attempt)
fetch_historical_with_retry(api_provider, x, attempt) ==
    historical_attempted(fetch_historical(api_provider, x), api_provider, attempt)

(***************************************************************************)
(* The run with its fetches spelled out: one credential, and for every     *)
(* device the requests its real-time and historical fetch send.            *)
(***************************************************************************)
FetchInit ==
    /\ tables = RunTables
    /\ error_logs = <<>>
    /\ conn = CleanConn
    /\ job = NoCall.a
    /\ last = NoCall
    /\ ingested = {}
    /\ calls = 0
    /\ FlattenIdle
    /\ run \in {[NoRun EXCEPT !.pc = "start", !.csv = <<Credential("u", Customer1, p, TRUE)>>] :
                  p \in Providers}

\* what the network, the vendor and the sink do while a device is processed
FetchEnvs ==
    {[h |-> h, device_insert |-> d, aggregate |-> a, log_db |-> l] :
        h \in [1..MaxAnswers -> Answers], d \in BOOLEAN, a \in BOOLEAN, l \in {"up", "down"}}

\* a fetch of the run: the calls the retry decorator made and the requests
\* they sent
Fetch(device_sn, kind, before, r) ==
    [device_sn |-> device_sn, kind |-> kind, attempts |-> r.attempts, result |-> r.result,
     sent |-> SubSeq(r.net.sent, Len(before.sent) + 1, Len(r.net.sent))]

\* the fetches of one pass of the device loop: the real-time fetch once the
\* device is registered, the historical fetch when the real-time stage left
\* the device running
fetches_of(device_sn, registered, after_real_time, x, rt, hi) ==
    IF registered.status # "running" THEN <<>>
    ELSE <<Fetch(device_sn, "real_time", x, rt)>> \o
         (IF after_real_time.status = "running"
          THEN <<Fetch(device_sn, "historical", rt.net, hi)>> ELSE <<>>)

\* the device loop's bookkeeping once the body is through
device_done(r, s, device_sn, fetched) ==
    IF s.status = "aborted"
    THEN [r EXCEPT !.pc = "aborted",
                   !.finished = @ \cup {[device_sn |-> device_sn, outcome |-> "raised"]},
                   !.inserts = @ \cup s.inserts,
                   !.devices = IF s.registered THEN @ \cup {device_sn} ELSE @,
                   !.fetches = @ \o fetched]
    ELSE [(IF r.di < r.n THEN [r EXCEPT !.di = @ + 1] ELSE NextCredential(r)) EXCEPT
             !.inserts = @ \cup s.inserts,
             !.devices = IF s.registered THEN @ \cup {device_sn} ELSE @,
             !.daily = IF s.aggregated THEN @ \cup {device_sn} ELSE @,
             !.finished = @ \cup {[device_sn |-> device_sn, outcome |-> s.status]},
             !.fetches = @ \o fetched]

\* lines 764-843: one pass of the device loop, the fetches request by request
FetchDevice ==
    /\ run.pc = "device"
    /\ \E env \in FetchEnvs : \E cred \in {run.credentials[run.ci]} :
       \E rt \in {fetch_real_time_with_retry(cred.api_provider, Exchange(env.h), 1)} :
       \E hi \in {fetch_historical_with_retry(cred.api_provider, rt.net, 1)} :
       \E ev \in {[device_insert |-> env.device_insert, real_time |-> rt.result,
                   historical |-> hi.result, aggregate |-> env.aggregate,
                   fail |-> {}, log_db |-> env.log_db]} :
       \E s0 \in {device_registered(DeviceState(tables, conn, error_logs), cred,
                                    DeviceSn(run.ci, run.di), ev)} :
       \E s1 \in {real_time_fetched(s0, cred, DeviceSn(run.ci, run.di), ev)} :
       \E s \in {aggregate_daily_data(
                     historical_fetched(s1, cred, DeviceSn(run.ci, run.di), ev),
                     cred, DeviceSn(run.ci, run.di), ev)} :
          /\ tables' = s.tables
          /\ conn' = IF s.status = "aborted" THEN CleanConn ELSE s.conn
          /\ error_logs' = IF s.status = "aborted" THEN run_error(s.error_logs, ev.log_db)
                           ELSE s.error_logs
          /\ run' = device_done(run, s, DeviceSn(run.ci, run.di),
                                fetches_of(DeviceSn(run.ci, run.di), s0, s1,
                                           Exchange(env.h), rt, hi))
    /\ UNCHANGED idleVars

FetchNext == Start \/ CredentialStep \/ PlantStep \/ FetchDevice \/ Finish
SpecFetch == FetchInit /\ [][FetchNext]_vars

\* every request of a fetch was answered with a transport error
TransportDown(f) ==
    f.sent # <<>> /\ \A i \in 1..Len(f.sent) : f.sent[i].answer = "timeout"

\* the device of fetch k was left at that fetch: no later fetch is made for it
SkippedAt(k) ==
    \A j \in (k + 1)..Len(run.fetches) :
        run.fetches[j].device_sn # run.fetches[k].device_sn

\* C12: a real-time or historical fetch whose HTTP call keeps failing with a
\* transport error is attempted exactly 3 times for its device; then the
\* device is skipped and the run goes on with the next device.
C12_ThreeAttemptsThenSkip ==
    \A k \in 1..Len(run.fetches) :
        TransportDown(run.fetches[k]) =>
            /\ Len(run.fetches[k].sent) = 3
            /\ SkippedAt(k)
            /\ run.pc # "aborted"

\* a ShineMonitor real-time fetch met a transport error at its first request
\* and sent no other
C12_SingleAttempt ==
    \E k \in 1..Len(run.fetches) :
        /\ TransportDown(run.fetches[k])
        /\ run.fetches[k].kind = "real_time"
        /\ run.credentials[1].api_provider = "shinemonitor"
        /\ Len(run.fetches[k].sent) = 1
        /\ run.fetches[k].attempts = 1

\* request i of a fetch was answered by the vendor with a failure
BusinessError(f, i) == f.sent[i].answer \in {"error", "denied"}

\* C13: a request the vendor answers with a business failure is sent exactly
\* once: the same call (same endpoint, same day) is not issued again within
\* the fetch.
C13_BusinessErrorSentOnce ==
    \A k \in 1..Len(run.fetches) : \A i \in 1..Len(run.fetches[k].sent) :
        BusinessError(run.fetches[k], i) =>
            \A j \in (i + 1)..Len(run.fetches[k].sent) :
                ~ /\ run.fetches[k].sent[j].endpoint = run.fetches[k].sent[i].endpoint
                  /\ run.fetches[k].sent[j].day = run.fetches[k].sent[i].day

\* SolisCloud answered the real-time request with a failure each time and the
\* request was sent three times
C13_SentThrice ==
    \E k \in 1..Len(run.fetches) :
        /\ run.fetches[k].kind = "real_time"
        /\ Len(run.fetches[k].sent) = 3
        /\ \A i \in 1..3 : run.fetches[k].sent[i].answer = "error"
        /\ run.fetches[k].result = "empty"

(***************************************************************************)
(* The plants and devices tables across runs.  Every run the vendor        *)
(* reports its plants and their devices again, possibly with other         *)
(* attributes; lines 723-747 and 764-790 are the only statements of the    *)
(* pipeline that name these tables.                                        *)
(***************************************************************************)
PlantsTable == [kind |-> "plants", id |-> <<>>]
DevicesTable == [kind |-> "devices", id |-> <<>>]

PlantRow(plant_id, customer_id, plant_name, capacity, install_date) ==
    [plant_id |-> plant_id, customer_id |-> customer_id, plant_name |-> plant_name,
     capacity |-> capacity, install_date |-> install_date]
DeviceRow(device_sn, plant_id, inverter_model, first_install_date) ==
    [device_sn |-> device_sn, plant_id |-> plant_id, inverter_model |-> inverter_model,
     panel_model |-> "Unknown", pv_count |-> 0, string_count |-> 0,
     first_install_date |-> first_install_date]

\* INSERT INTO plants ... ON CONFLICT (plant_id) DO UPDATE: the row of the
\* plant takes the new values
insert_plant_do_update(rows, row) ==
    IF \E i \in 1..Len(rows) : rows[i].plant_id = row.plant_id
    THEN [i \in 1..Len(rows) |-> IF rows[i].plant_id = row.plant_id THEN row ELSE rows[i]]
    ELSE Append(rows, row)

\* INSERT INTO plants ... ON CONFLICT (plant_id) DO NOTHING (729-738)
insert_plant(rows, row) ==
    IF \E i \in 1..Len(rows) : rows[i].plant_id = row.plant_id
    THEN rows ELSE Append(rows, row)

\* INSERT INTO devices ... ON CONFLICT (device_sn) DO NOTHING (771-782)
insert_device(rows, row) ==
    IF \E i \in 1..Len(rows) : rows[i].device_sn = row.device_sn
    THEN rows ELSE Append(rows, row)

\* lines 724-747 and 765-790: the statement and conn.commit(), or, when the
\* sink refuses the statement, log_error_to_db and conn.rollback()
Registered(tbls, logged) ==
    [tables |-> tbls, error_logs |-> logged.error_logs, raised |-> logged.raised]
register_plant(tbls, elog, row, api_provider, ev) ==
    IF ev.ok
    THEN Registered([tbls EXCEPT ![PlantsTable] = insert_plant(@, row)],
                    [error_logs |-> elog, raised |-> FALSE])
    ELSE Registered(tbls,
                    log_error_to_db(elog,
                        <<ErrorRow(row.customer_id, None, api_provider, "insert_plant",
                                   row.plant_id, "exception")>>, ev.log_db))
register_device(tbls, elog, row, customer_id, api_provider, ev) ==
    IF ev.ok
    THEN Registered([tbls EXCEPT ![DevicesTable] = insert_device(@, row)],
                    [error_logs |-> elog, raised |-> FALSE])
    ELSE Registered(tbls,
                    log_error_to_db(elog,
                        <<ErrorRow(customer_id, row.device_sn, api_provider, "insert_device",
                                   row.device_sn, "exception")>>, ev.log_db))

MaxSightings == 3       \* plants and devices reported over all runs

\* what the vendors report
PlantsSeen ==
    {PlantRow(id, Customer1, name, capacity, "2020-01-01") :
        id \in {"P1", "P2"}, name \in {"North", "South"}, capacity \in {50, 60}}
DevicesSeen ==
    {DeviceRow(sn, plant_id, model, date) :
        sn \in {"INV-1", "INV-2"}, plant_id \in {"P1"}, model \in {"X", "Y"},
        date \in {"2020-01-01", "2021-06-30"}}

RegistryEnvs == {[ok |-> o, log_db |-> l] : o \in BOOLEAN, l \in {"up", "down"}}

RegistryInit ==
    /\ tables = [t \in {PlantsTable, DevicesTable} |-> <<>>]
    /\ error_logs = <<>>
    /\ conn = CleanConn
    /\ job = NoCall.a
    /\ last = NoCall
    /\ ingested = {}
    /\ calls = 0
    /\ FlattenIdle
    /\ run = NoRun

\* a run reaches a plant of the vendor's list (723-747)
PlantSeen ==
    /\ run.sightings < MaxSightings
    /\ \E row \in PlantsSeen, ev \in RegistryEnvs :
       \E r \in {register_plant(tables, error_logs, row, "soliscloud", ev)} :
          /\ tables' = r.tables
          /\ error_logs' = IF r.raised THEN run_error(r.error_logs, ev.log_db)
                           ELSE r.error_logs
          /\ run' = [run EXCEPT !.sightings = @ + 1,
                                !.sighted = <<[table |-> PlantsTable, row |-> row,
                                               ok |-> ev.ok]>>]
    /\ UNCHANGED <<conn, idleVars>>

\* a run reaches a device of a plant (764-790)
DeviceSeen ==
    /\ run.sightings < MaxSightings
    /\ \E row \in DevicesSeen, ev \in RegistryEnvs :
       \E r \in {register_device(tables, error_logs, row, Customer1, "soliscloud", ev)} :
          /\ tables' = r.tables
          /\ error_logs' = IF r.raised THEN run_error(r.error_logs, ev.log_db)
                           ELSE r.error_logs
          /\ run' = [run EXCEPT !.sightings = @ + 1,
                                !.sighted = <<[table |-> DevicesTable, row |-> row,
                                               ok |-> ev.ok]>>]
    /\ UNCHANGED <<conn, idleVars>>

RegistryNext == PlantSeen \/ DeviceSeen
SpecRegistry == RegistryInit /\ [][RegistryNext]_vars

\* the rows of a table with the key of a row
WithKey(t, row) ==
    {i \in 1..Len(tables[t]) :
        IF t = PlantsTable THEN tables[t][i].plant_id = row.plant_id
        ELSE tables[t][i].device_sn = row.device_sn}

\* C14: the stored row of a plant (keyed by plant_id) and of a device (keyed
\* by device_sn) holds the values of the first sighting that inserted it: no
\* step changes or removes a stored row, and a key has one row at most.
C14_InsertIfAbsent ==
    [][\A t \in {PlantsTable, DevicesTable} :
          /\ Len(tables'[t]) >= Len(tables[t])
          /\ \A i \in 1..Len(tables[t]) : tables'[t][i] = tables[t][i]
          /\ \A i, j \in 1..Len(tables'[t]) :
                (i # j) => (WithKey(t, tables'[t][i]) \cap WithKey(t, tables'[t][j]) = {})
      ]_vars

\* a plant or device that has a row was reported again with other values,
\* the sink took the statement, and the row is still the first one
C14_SeenAgainDifferently ==
    /\ run.sighted # <<>>
    /\ run.sighted[1].ok
    /\ WithKey(run.sighted[1].table, run.sighted[1].row) # {}
    /\ \A i \in WithKey(run.sighted[1].table, run.sighted[1].row) :
          tables[run.sighted[1].table][i] # run.sighted[1].row
    /\ run.sightings >= 2

(***************************************************************************)
(* The adapters' channel mapping.  A vendor reading is a list of items,    *)
(* each a vendor key (a field code, a parameter key or a column title,     *)
(* written as its characters) with the value reported for it; time is the  *)
(* reading's timestamp as the adapter formats it.  An entry maps canonical *)
(* keys to channel values, as the adapters' dicts do.                      *)
(***************************************************************************)
CHARS_pac == <<"p", "a", "c">>
CHARS_eToday == <<"e", "T", "o", "d", "a", "y">>
CHARS_pr == <<"p", "r">>
CHARS_state == <<"s", "t", "a", "t", "e">>
CHARS_uAc == <<"u", "A", "c">>
CHARS_iAc == <<"i", "A", "c">>
CHARS_uPv == <<"u", "P", "v">>
CHARS_iPv == <<"i", "P", "v">>
CHARS_power == <<"p", "o", "w", "e", "r">>
CHARS_voltage == <<"v", "o", "l", "t", "a", "g", "e">>
CHARS_current == <<"c", "u", "r", "r", "e", "n", "t">>
CHARS_pv1 == <<"p", "v", "1">>
CHARS_status == <<"s", "t", "a", "t", "u", "s">>
CHARS_energy == <<"e", "n", "e", "r", "g", "y">>
CHARS_today == <<"t", "o", "d", "a", "y">>

\* channel is the canonical channel the vendor field stands for ("none" when
\* it stands for none); the adapters do not see it
Item(key, value, channel) == [key |-> key, value |-> value, channel |-> channel]

\* data.get(key, default) on the items of a vendor dict
RECURSIVE ItemGet(_, _, _)
ItemGet(items, key, default) ==
    IF items = <<>> THEN default
    ELSE IF Head(items).key = key THEN Head(items).value
    ELSE ItemGet(Tail(items), key, default)

\* float(value) of a number or a numeric string
to_float(value) == IF value.k = "numstr" THEN Num(value.v) ELSE value

\* sub in s
Contains(s, sub) ==
    \E i \in 0..(Len(s) - Len(sub)) : SubSeq(s, i + 1, i + Len(sub)) = sub

\* entry[key] = value
Put(entry, key, value) ==
    [k \in DOMAIN entry \cup {key} |-> IF k = key THEN value ELSE entry[k]]

\* the index of a canonical PV key
PvIndex(key) == CHOOSE j \in 1..12 : key \in {pv_key(j, "voltage"), pv_key(j, "current")}

\* SolisCloud: the field code each canonical key is read from (211-226,
\* 325-341)
solis_field(key) ==
    CASE key = "total_power" -> CHARS_pac
      [] key = "energy_today" -> CHARS_eToday
      [] key = "pr" -> CHARS_pr
      [] key = "state" -> CHARS_state
      [] key \in {"r_voltage", "s_voltage", "t_voltage"} ->
            CHARS_uAc \o ToDigits(CASE key = "r_voltage" -> 1 [] key = "s_voltage" -> 2
                                    [] OTHER -> 3)
      [] key \in {"r_current", "s_current", "t_current"} ->
            CHARS_iAc \o ToDigits(CASE key = "r_current" -> 1 [] key = "s_current" -> 2
                                    [] OTHER -> 3)
      [] key \in {pv_key(j, "voltage") : j \in 1..12} -> CHARS_uPv \o ToDigits(PvIndex(key))
      [] OTHER -> CHARS_iPv \o ToDigits(PvIndex(key))

solis_entry(items, keys) ==
    [key \in keys |->
        IF key = "state" THEN ItemGet(items, solis_field(key), Unknown)
        ELSE to_float(ItemGet(items, solis_field(key), Num(0)))]

\* SolisCloudAPI.get_inverter_real_time_data (211-226): PV inputs 1 to 12
real_time_entry(items) ==
    solis_entry(items, PvCols \cup PhaseCols \cup {"total_power", "energy_today", "pr", "state"})

\* SolisCloudAPI.get_inverter_historical_data (325-341): PV inputs 1 to 6
historical_entry(items) ==
    solis_entry(items,
                {pv_key(j, q) : j \in 1..6, q \in {"voltage", "current"}} \cup PhaseCols \cup
                {"total_power", "energy_today", "pr", "state"})

\* ShineMonitor: the chains of title tests of fetch_historical_data (226-286)
\* and fetch_current_data (378-404), in their order: a column goes to the
\* key of the first test one of whose texts its title contains
historical_titles ==
    <<[key |-> "pv01_voltage", float |-> TRUE,
       any |-> <<<<"P", "V", "1", " ", "i", "n", "p", "u", "t", " ", "v", "o", "l", "t", "a", "g", "e">>,
                 <<"P", "V", "1", " ", "v", "o", "l", "t", "a", "g", "e">>,
                 <<"S", "t", "r", "i", "n", "g", " ", "1", " ", "v", "o", "l", "t", "a", "g", "e">>,
                 <<"D", "C", " ", "v", "o", "l", "t", "a", "g", "e", " ", "1">>>>],
      [key |-> "pv02_voltage", float |-> TRUE,
       any |-> <<<<"P", "V", "2", " ", "i", "n", "p", "u", "t", " ", "v", "o", "l", "t", "a", "g", "e">>,
                 <<"P", "V", "2", " ", "v", "o", "l", "t", "a", "g", "e">>,
                 <<"S", "t", "r", "i", "n", "g", " ", "2", " ", "v", "o", "l", "t", "a", "g", "e">>,
                 <<"D", "C", " ", "v", "o", "l", "t", "a", "g", "e", " ", "2">>>>],
      [key |-> "pv03_voltage", float |-> TRUE,
       any |-> <<<<"P", "V", "3", " ", "i", "n", "p", "u", "t", " ", "v", "o", "l", "t", "a", "g", "e">>,
                 <<"P", "V", "3", " ", "v", "o", "l", "t", "a", "g", "e">>,
                 <<"S", "t", "r", "i", "n", "g", " ", "3", " ", "v", "o", "l", "t", "a", "g", "e">>,
                 <<"D", "C", " ", "v", "o", "l", "t", "a", "g", "e", " ", "3">>>>],
      [key |-> "pv01_current", float |-> TRUE,
       any |-> <<<<"P", "V", "1", " ", "I", "n", "p", "u", "t", " ", "c", "u", "r", "r", "e", "n", "t">>,
                 <<"S", "t", "r", "i", "n", "g", " ", "1", " ", "c", "u", "r", "r", "e", "n", "t">>,
                 <<"D", "C", " ", "c", "u", "r", "r", "e", "n", "t", " ", "1">>>>],
      [key |-> "pv02_current", float |-> TRUE,
       any |-> <<<<"P", "V", "2", " ", "I", "n", "p", "u", "t", " ", "c", "u", "r", "r", "e", "n", "t">>,
                 <<"S", "t", "r", "i", "n", "g", " ", "2", " ", "c", "u", "r", "r", "e", "n", "t">>,
                 <<"D", "C", " ", "c", "u", "r", "r", "e", "n", "t", " ", "2">>>>],
      [key |-> "pv03_current", float |-> TRUE,
       any |-> <<<<"P", "V", "3", " ", "I", "n", "p", "u", "t", " ", "c", "u", "r", "r", "e", "n", "t">>,
                 <<"S", "t", "r", "i", "n", "g", " ", "3", " ", "c", "u", "r", "r", "e", "n", "t">>,
                 <<"D", "C", " ", "c", "u", "r", "r", "e", "n", "t", " ", "3">>>>],
      [key |-> "pv04_voltage", float |-> TRUE,
       any |-> <<<<"P", "V", "4", " ", "i", "n", "p", "u", "t", " ", "v", "o", "l", "t", "a", "g", "e">>,
                 <<"P", "V", "4", " ", "v", "o", "l", "t", "a", "g", "e">>,
                 <<"S", "t", "r", "i", "n", "g", " ", "4", " ", "v", "o", "l", "t", "a", "g", "e">>,
                 <<"D", "C", " ", "v", "o", "l", "t", "a", "g", "e", " ", "4">>>>],
      [key |-> "pv05_voltage", float |-> TRUE,
       any |-> <<<<"P", "V", "5", " ", "i", "n", "p", "u", "t", " ", "v", "o", "l", "t", "a", "g", "e">>,
                 <<"P", "V", "5", " ", "v", "o", "l", "t", "a", "g", "e">>,
                 <<"S", "t", "r", "i", "n", "g", " ", "5", " ", "v", "o", "l", "t", "a", "g", "e">>,
                 <<"D", "C", " ", "v", "o", "l", "t", "a", "g", "e", " ", "5">>>>],
      [key |-> "pv06_voltage", float |-> TRUE,
       any |-> <<<<"P", "V", "6", " ", "i", "n", "p", "u", "t", " ", "v", "o", "l", "t", "a", "g", "e">>,
                 <<"P", "V", "6", " ", "v", "o", "l", "t", "a", "g", "e">>,
                 <<"S", "t", "r", "i", "n", "g", " ", "6", " ", "v", "o", "l", "t", "a", "g", "e">>,
                 <<"D", "C", " ", "v", "o", "l", "t", "a", "g", "e", " ", "6">>>>],
      [key |-> "pv07_voltage", float |-> TRUE,
       any |-> <<<<"P", "V", "7", " ", "i", "n", "p", "u", "t", " ", "v", "o", "l", "t", "a", "g", "e">>,
                 <<"P", "V", "7", " ", "v", "o", "l", "t", "a", "g", "e">>,
                 <<"S", "t", "r", "i", "n", "g", " ", "7", " ", "v", "o", "l", "t", "a", "g", "e">>,
                 <<"D", "C", " ", "v", "o", "l", "t", "a", "g", "e", " ", "7">>>>],
      [key |-> "pv08_voltage", float |-> TRUE,
       any |-> <<<<"P", "V", "8", " ", "i", "n", "p", "u", "t", " ", "v", "o", "l", "t", "a", "g", "e">>,
                 <<"P", "V", "8", " ", "v", "o", "l", "t", "a", "g", "e">>,
                 <<"S", "t", "r", "i", "n", "g", " ", "8", " ", "v", "o", "l", "t", "a", "g", "e">>,
                 <<"D", "C", " ", "v", "o", "l", "t", "a", "g", "e", " ", "8">>>>],
      [key |-> "pv09_voltage", float |-> TRUE,
       any |-> <<<<"P", "V", "9", " ", "i", "n", "p", "u", "t", " ", "v", "o", "l", "t", "a", "g", "e">>,
                 <<"P", "V", "9", " ", "v", "o", "l", "t", "a", "g", "e">>,
                 <<"S", "t", "r", "i", "n", "g", " ", "9", " ", "v", "o", "l", "t", "a", "g", "e">>,
                 <<"D", "C", " ", "v", "o", "l", "t", "a", "g", "e", " ", "9">>>>],
      [key |-> "pv10_voltage", float |-> TRUE,
       any |-> <<<<"P", "V", "1", "0", " ", "i", "n", "p", "u", "t", " ", "v", "o", "l", "t", "a", "g", "e">>,
                 <<"P", "V", "1", "0", " ", "v", "o", "l", "t", "a", "g", "e">>,
                 <<"S", "t", "r", "i", "n", "g", " ", "1", "0", " ", "v", "o", "l", "t", "a", "g", "e">>,
                 <<"D", "C", " ", "v", "o", "l", "t", "a", "g", "e", " ", "1", "0">>>>],
      [key |-> "pv11_voltage", float |-> TRUE,
       any |-> <<<<"P", "V", "1", "1", " ", "i", "n", "p", "u", "t", " ", "v", "o", "l", "t", "a", "g", "e">>,
                 <<"P", "V", "1", "1", " ", "v", "o", "l", "t", "a", "g", "e">>,
                 <<"S", "t", "r", "i", "n", "g", " ", "1", "1", " ", "v", "o", "l", "t", "a", "g", "e">>,
                 <<"D", "C", " ", "v", "o", "l", "t", "a", "g", "e", " ", "1", "1">>>>],
      [key |-> "pv12_voltage", float |-> TRUE,
       any |-> <<<<"P", "V", "1", "2", " ", "i", "n", "p", "u", "t", " ", "v", "o", "l", "t", "a", "g", "e">>,
                 <<"P", "V", "1", "2", " ", "v", "o", "l", "t", "a", "g", "e">>,
                 <<"S", "t", "r", "i", "n", "g", " ", "1", "2", " ", "v", "o", "l", "t", "a", "g", "e">>,
                 <<"D", "C", " ", "v", "o", "l", "t", "a", "g", "e", " ", "1", "2">>>>],
      [key |-> "r_current", float |-> TRUE,
       any |-> <<<<"R", " ", "p", "h", "a", "s", "e", " ", "g", "r", "i", "d", " ", "c", "u", "r", "r", "e", "n", "t">>,
                 <<"g", "r", "i", "d", " ", "c", "u", "r", "r", "e", "n", "t", " ", "A">>>>],
      [key |-> "s_current", float |-> TRUE,
       any |-> <<<<"S", " ", "p", "h", "a", "s", "e", " ", "g", "r", "i", "d", " ", "c", "u", "r", "r", "e", "n", "t">>,
                 <<"g", "r", "i", "d", " ", "c", "u", "r", "r", "e", "n", "t", " ", "B">>>>],
      [key |-> "t_current", float |-> TRUE,
       any |-> <<<<"T", " ", "p", "h", "a", "s", "e", " ", "g", "r", "i", "d", " ", "c", "u", "r", "r", "e", "n", "t">>,
                 <<"g", "r", "i", "d", " ", "c", "u", "r", "r", "e", "n", "t", " ", "C">>>>],
      [key |-> "rs_voltage", float |-> TRUE,
       any |-> <<<<"G", "r", "i", "d", " ", "l", "i", "n", "e", " ", "v", "o", "l", "t", "a", "g", "e", " ", "R", "S">>,
                 <<"g", "r", "i", "d", " ", "v", "o", "l", "t", "a", "g", "e", " ", "A", "B">>>>],
      [key |-> "st_voltage", float |-> TRUE,
       any |-> <<<<"G", "r", "i", "d", " ", "l", "i", "n", "e", " ", "v", "o", "l", "t", "a", "g", "e", " ", "S", "T">>,
                 <<"g", "r", "i", "d", " ", "v", "o", "l", "t", "a", "g", "e", " ", "B", "C">>>>],
      [key |-> "tr_voltage", float |-> TRUE,
       any |-> <<<<"G", "r", "i", "d", " ", "l", "i", "n", "e", " ", "v", "o", "l", "t", "a", "g", "e", " ", "T", "R">>,
                 <<"g", "r", "i", "d", " ", "v", "o", "l", "t", "a", "g", "e", " ", "A", "C">>>>],
      [key |-> "r_voltage", float |-> TRUE,
       any |-> <<<<"R", " ", "p", "h", "a", "s", "e", " ", "g", "r", "i", "d", " ", "v", "o", "l", "t", "a", "g", "e">>,
                 <<"g", "r", "i", "d", " ", "v", "o", "l", "t", "a", "g", "e", " ", "A">>,
                 <<"R", " ", "p", "h", "a", "s", "e", " ", "g", "r", "i", "d", " ", "v", "o", "l", "t", "a", "g", "e">>>>],
      [key |-> "s_voltage", float |-> TRUE,
       any |-> <<<<"S", " ", "p", "h", "a", "s", "e", " ", "g", "r", "i", "d", " ", "v", "o", "l", "t", "a", "g", "e">>,
                 <<"g", "r", "i", "d", " ", "v", "o", "l", "t", "a", "g", "e", " ", "B">>,
                 <<"S", " ", "p", "h", "a", "s", "e", " ", "g", "r", "i", "d", " ", "v", "o", "l", "t", "a", "g", "e">>>>],
      [key |-> "t_voltage", float |-> TRUE,
       any |-> <<<<"T", " ", "p", "h", "a", "s", "e", " ", "g", "r", "i", "d", " ", "v", "o", "l", "t", "a", "g", "e">>,
                 <<"g", "r", "i", "d", " ", "v", "o", "l", "t", "a", "g", "e", " ", "C">>,
                 <<"T", " ", "p", "h", "a", "s", "e", " ", "g", "r", "i", "d", " ", "v", "o", "l", "t", "a", "g", "e">>>>],
      [key |-> "frequency", float |-> TRUE,
       any |-> <<<<"G", "r", "i", "d", " ", "f", "r", "e", "q", "u", "e", "n", "c", "y">>,
                 <<"g", "r", "i", "d", " ", "f", "r", "e", "q", "u", "e", "n", "c", "y">>>>],
      [key |-> "total_power", float |-> TRUE,
       any |-> <<<<"G", "r", "i", "d", " ", "c", "o", "n", "n", "e", "c", "t", "e", "d", " ", "p", "o", "w", "e", "r">>,
                 <<"o", "u", "t", "p", "u", "t", " ", "p", "o", "w", "e", "r">>,
                 <<"P", "V", " ", "p", "o", "w", "e", "r", " ", "g", "e", "n", "e", "r", "a", "t", "i", "o", "n", " ", "t", "o", "d", "a", "y", " ", "(", "k", "W", "h", ")">>>>],
      [key |-> "energy_today", float |-> TRUE,
       any |-> <<<<"P", "V", " ", "p", "o", "w", "e", "r", " ", "g", "e", "n", "e", "r", "a", "t", "i", "o", "n", " ", "t", "o", "d", "a", "y", " ", "(", "k", "W", "h", ")">>,
                 <<"t", "o", "d", "a", "y", " ", "e", "n", "e", "r", "g", "y">>>>],
      [key |-> "reactive_power", float |-> TRUE,
       any |-> <<<<"o", "u", "t", "p", "u", "t", " ", "r", "e", "a", "c", "t", "i", "v", "e", " ", "p", "o", "w", "e", "r">>,
                 <<"t", "o", "t", "a", "l", " ", "r", "e", "a", "c", "t", "i", "v", "e", " ", "e", "n", "e", "r", "g", "y">>>>],
      [key |-> "cuf", float |-> FALSE,
       any |-> <<<<"C", "U", "F">>,
                 <<"c", "u", "f">>>>],
      [key |-> "state", float |-> FALSE,
       any |-> <<<<"I", "n", "v", "e", "r", "t", "e", "r", " ", "o", "p", "e", "r", "a", "t", "i", "o", "n", " ", "m", "o", "d", "e">>,
                 <<"r", "u", "n", "n", "i", "n", "g", " ", "s", "t", "a", "t", "e">>,
                 <<"I", "n", "v", "e", "r", "t", "e", "r", " ", "s", "t", "a", "t", "u", "s">>>>]>>

current_titles ==
    <<[key |-> "pv01_voltage", float |-> TRUE,
       any |-> <<<<"P", "V", "1", " ", "i", "n", "p", "u", "t", " ", "v", "o", "l", "t", "a", "g", "e">>,
                 <<"P", "V", "1", " ", "v", "o", "l", "t", "a", "g", "e">>,
                 <<"S", "t", "r", "i", "n", "g", " ", "1", " ", "v", "o", "l", "t", "a", "g", "e">>,
                 <<"D", "C", " ", "v", "o", "l", "t", "a", "g", "e", " ", "1", " ", "(", "V", ")">>>>],
      [key |-> "pv02_voltage", float |-> TRUE,
       any |-> <<<<"P", "V", "2", " ", "i", "n", "p", "u", "t", " ", "v", "o", "l", "t", "a", "g", "e">>,
                 <<"P", "V", "2", " ", "v", "o", "l", "t", "a", "g", "e">>,
                 <<"S", "t", "r", "i", "n", " ", " ", " ", "2", " ", "v", "o", "l", "t", "a", "g", "e">>,
                 <<"D", "C", " ", "v", "o", "l", "t", "a", "g", "e", " ", "2", " ", "(", "V", ")">>>>],
      [key |-> "pv03_voltage", float |-> TRUE,
       any |-> <<<<"P", "V", "3", " ", "i", "n", "p", "u", "t", " ", "v", "o", "l", "t", "a", "g", "e">>,
                 <<"P", "V", "3", " ", "v", "o", "l", "t", "a", "g", "e">>,
                 <<"S", "t", "r", "i", "n", " ", " ", " ", "3", " ", "v", "o", "l", "t", "a", "g", "e">>,
                 <<"D", "C", " ", "v", "o", "l", "t", "a", "g", "e", " ", "3", " ", "(", "V", ")">>>>],
      [key |-> "pv01_current", float |-> TRUE,
       any |-> <<<<"P", "V", "1", " ", "I", "n", "p", "u", "t", " ", "c", "u", "r", "r", "e", "n", "t">>,
                 <<"S", "t", "r", "i", "n", "g", " ", "1", " ", "c", "u", "r", "r", "e", "n", "t">>,
                 <<"D", " ", " ", "c", "u", "r", "r", "e", "n", "t", " ", "1", " ", "(", "A", ")">>>>],
      [key |-> "pv02_current", float |-> TRUE,
       any |-> <<<<"P", "V", "2", " ", "I", "n", "p", "u", "t", " ", "c", "u", "r", "r", "e", "n", "t">>,
                 <<"S", "t", "r", "i", "n", "g", " ", "2", " ", "c", "u", "r", "r", "e", "n", "t">>,
                 <<"D", " ", " ", "c", "u", "r", "r", "e", "n", "t", " ", "2", " ", "(", "A", ")">>>>],
      [key |-> "pv03_current", float |-> TRUE,
       any |-> <<<<"P", "V", "3", " ", "I", "n", "p", "u", "t", " ", "c", "u", "r", "r", "e", "n", "t">>,
                 <<"S", "t", "r", "i", "n", "g", " ", "3", " ", "c", "u", "r", "r", "e", "n", "t">>,
                 <<"D", " ", " ", "c", "u", "r", "r", "e", "n", "t", " ", "3">>>>],
      [key |-> "r_voltage", float |-> TRUE,
       any |-> <<<<"R", " ", "p", "h", "a", "s", "e", " ", "g", "r", "i", "d", " ", "v", "o", "l", "t", "a", "g", "e">>,
                 <<"g", "r", "i", "d", " ", "v", "o", "l", "t", "a", "g", "e", " ", "A">>>>],
      [key |-> "s_voltage", float |-> TRUE,
       any |-> <<<<"S", " ", "p", "h", "a", "s", "e", " ", "g", "r", "i", "d", " ", "v", "o", "l", "t", "a", "g", "e">>,
                 <<"g", "r", "i", "d", " ", "v", "o", "l", "t", "a", "g", "e", " ", "B">>>>],
      [key |-> "t_voltage", float |-> TRUE,
       any |-> <<<<"T", " ", "p", "h", "a", "s", "e", " ", "g", "r", "i", "d", " ", "v", "o", "l", "t", "a", "g", "e">>,
                 <<"g", "r", "i", "d", " ", "v", "o", "l", "t", "a", "g", "e", " ", "C">>>>],
      [key |-> "frequency", float |-> TRUE,
       any |-> <<<<"G", "r", "i", "d", " ", "f", "r", "e", "q", "u", "e", "n", "c", "y">>,
                 <<"g", "r", "i", "d", " ", "f", "r", "e", "q", "u", "e", "n", "c", "y">>>>],
      [key |-> "total_power", float |-> TRUE,
       any |-> <<<<"G", "r", "i", "d", " ", "c", "o", "n", "n", "e", "c", "t", "e", "d", " ", "p", "o", "w", "e", "r">>,
                 <<"o", "u", "t", "p", "u", "t", " ", "p", "o", "w", "e", "r">>>>],
      [key |-> "state", float |-> FALSE,
       any |-> <<<<"I", "n", "v", "e", "r", "t", "e", "r", " ", "o", "p", "e", "r", "a", "t", "i", "o", "n", " ", "m", "o", "d", "e">>,
                 <<"r", "u", "n", "n", "i", "n", "g", " ", "s", "t", "a", "t", "e">>>>],
      [key |-> "energy_today", float |-> TRUE,
       any |-> <<<<"t", "o", "d", "a", "y", " ", "e", "n", "e", "r", "g", "y", " ", "(", "k", "w", "h", ")">>>>],
      [key |-> "reactive_power", float |-> TRUE,
       any |-> <<<<"o", "u", "t", "p", "u", "t", " ", "r", "e", "a", "c", "t", "i", "v", "e", " ", "p", "o", "w", "e", "r">>>>]>>
\* the first test of a chain a title passes, 0 when it passes none
title_test(chain, title) ==
    IF \E n \in 1..Len(chain) : \E a \in 1..Len(chain[n].any) : Contains(title, chain[n].any[a])
    THEN CHOOSE n \in 1..Len(chain) :
            /\ \E a \in 1..Len(chain[n].any) : Contains(title, chain[n].any[a])
            /\ \A m \in 1..(n - 1) :
                  \A a \in 1..Len(chain[m].any) : ~Contains(title, chain[m].any[a])
    ELSE 0

\* the loop over the columns of a row (215-286, 373-404): empty values are
\* passed over
RECURSIVE titled(_, _, _)
column(entry, items, chain, n) ==
    IF Head(items).value = NoneV \/ n = 0 THEN titled(entry, Tail(items), chain)
    ELSE titled(Put(entry, chain[n].key,
                    IF chain[n].float THEN to_float(Head(items).value)
                    ELSE Head(items).value),
                Tail(items), chain)
titled(entry, items, chain) ==
    IF items = <<>> THEN entry
    ELSE column(entry, items, chain, title_test(chain, Head(items).key))

\* entry.get(key, default) on an entry
EntryGet(entry, key, default) == IF key \in DOMAIN entry THEN entry[key] ELSE default

\* entry.update({...}) of fetch_historical_data (290-323): energy_today is
\* the energy_today of the day's answer
historical_defaults(entry, dat_energy_today) ==
    [k \in DOMAIN entry \cup
           {pv_key(j, q) : j \in 3..12, q \in {"voltage", "current"}} \cup PhaseCols \cup
           LineCols \cup {"reactive_power", "energy_today", "cuf", "pr"} |->
        CASE k = "energy_today" -> to_float(dat_energy_today)
          [] k = "pr" -> NoneV
          [] k \in {"pv01_voltage", "pv01_current", "pv02_voltage", "pv02_current",
                    "frequency", "total_power", "state"} -> entry[k]
          [] OTHER -> EntryGet(entry, k, Num(0))]

\* entry.update({...}) of fetch_current_data (407-438)
current_defaults(entry, dat_energy_today) ==
    [k \in DOMAIN entry \cup
           {pv_key(j, q) : j \in 3..12, q \in {"voltage", "current"}} \cup
           {"r_current", "s_current", "t_current"} \cup
           LineCols \cup {"reactive_power", "energy_today", "cuf", "pr"} |->
        CASE k = "energy_today" -> to_float(dat_energy_today)
          [] k \in {"pv03_voltage", "pv03_current"} -> EntryGet(entry, k, NoneV)
          [] k \in {"pv01_voltage", "pv01_current", "pv02_voltage", "pv02_current",
                    "r_voltage", "s_voltage", "t_voltage",
                    "frequency", "total_power", "state"} -> entry[k]
          [] OTHER -> NoneV]

\* Solarman: the tests of get_historical_data (262-276) and get_current_data
\* (308-321) on the lower-cased parameter key
solarman_key(key) ==
    CASE Contains(key, CHARS_power) -> "total_power"
      [] Contains(key, CHARS_voltage) /\ Contains(key, CHARS_pv1) -> "pv01_voltage"
      [] Contains(key, CHARS_current) /\ Contains(key, CHARS_pv1) -> "pv01_current"
      [] Contains(key, CHARS_state) \/ Contains(key, CHARS_status) -> "state"
      [] Contains(key, CHARS_energy) /\ Contains(key, CHARS_today) -> "energy_today"
      [] OTHER -> "none"

\* get_historical_data (262-277): the parameters of one item of paramDataList
RECURSIVE data_list_entry(_, _)
data_list_entry(entry, items) ==
    IF items = <<>> THEN entry
    ELSE IF Head(items).value = NoneV \/ solarman_key(lower(Head(items).key)) = "none"
    THEN data_list_entry(entry, Tail(items))
    ELSE data_list_entry(Put(entry, solarman_key(lower(Head(items).key)),
                             IF solarman_key(lower(Head(items).key)) = "state"
                             THEN Head(items).value ELSE to_float(Head(items).value)),
                         Tail(items))

\* one entry for the whole snapshot
current_data_in_one_entry(items, time) ==
    <<DictNode(time, None, data_list_entry(<<>>, items))>>

\* get_current_data (305-322): an entry of its own for every parameter; a
\* parameter that passes no test leaves an entry without channel
current_data(items, time) ==
    [i \in 1..Len(SelectSeq(items, LAMBDA it : it.value # NoneV)) |->
        DictNode(time, None,
                 data_list_entry(<<>>, <<SelectSeq(items, LAMBDA it : it.value # NoneV)[i]>>))]

(***************************************************************************)
(* One vendor reading on its way to the sink: the adapter maps it, the     *)
(* historical answer is flattened, insert_data_to_db writes it.            *)
(***************************************************************************)
Vendor(api_provider, kind, items, energy_today) ==
    [api_provider |-> api_provider, kind |-> kind, items |-> items,
     energy_today |-> energy_today, time |-> PyStr(Chars_0615)]

\* what the adapter returns for the reading (the Solarman methods as called
\* with their own signature)
vendor_response(v) ==
    CASE v.api_provider = "soliscloud" /\ v.kind = "real_time" ->
            DictNode(v.time, None, real_time_entry(v.items))
      [] v.api_provider = "soliscloud" ->
            ListNode(<<DictNode(v.time, None, historical_entry(v.items))>>)
      [] v.api_provider = "shinemonitor" /\ v.kind = "real_time" ->
            ListNode(<<DictNode(v.time, None,
                                current_defaults(titled(<<>>, v.items, current_titles),
                                                 v.energy_today))>>)
      [] v.api_provider = "shinemonitor" ->
            ListNode(<<DictNode(v.time, None,
                                historical_defaults(titled(<<>>, v.items, historical_titles),
                                                    v.energy_today))>>)
      [] v.kind = "real_time" -> ListNode(current_data(v.items, v.time))
      [] OTHER -> ListNode(<<DictNode(v.time, None, data_list_entry(<<>>, v.items))>>)

\* lines 804-808 and 827-835: the arguments of insert_data_to_db
vendor_args(v, response) ==
    InsertArgs(IF v.kind = "real_time" THEN response
               ELSE ListNode(flatten_data(response, v.api_provider).out),
               Device1, Customer1, v.api_provider, v.kind = "real_time")

\* the items of seq whose index is in S, in order
RECURSIVE Pick(_, _)
Pick(seq, S) ==
    IF seq = <<>> THEN <<>>
    ELSE IF Len(seq) \in S THEN Append(Pick(SubSeq(seq, 1, Len(seq) - 1), S), seq[Len(seq)])
    ELSE Pick(SubSeq(seq, 1, Len(seq) - 1), S)

\* vendor titles and keys of the sample readings
TITLE_dc1 == <<"D", "C", " ", "v", "o", "l", "t", "a", "g", "e", " ", "1", " ", "(", "V", ")">>
TITLE_dc3 == <<"D", "C", " ", "v", "o", "l", "t", "a", "g", "e", " ", "3", " ", "(", "V", ")">>
TITLE_freq == <<"g", "r", "i", "d", " ", "f", "r", "e", "q", "u", "e", "n", "c", "y", " ", "(", "H", "z", ")">>
TITLE_power == <<"o", "u", "t", "p", "u", "t", " ", "p", "o", "w", "e", "r", " ", "(", "W", ")">>
TITLE_energy == <<"t", "o", "d", "a", "y", " ", "e", "n", "e", "r", "g", "y", " ", "(", "k", "W", "h", ")">>
KEY_pv1v == <<"p", "v", "1", "_", "v", "o", "l", "t", "a", "g", "e">>
KEY_pv2v == <<"p", "v", "2", "_", "v", "o", "l", "t", "a", "g", "e">>
KEY_pv10v == <<"p", "v", "1", "0", "_", "v", "o", "l", "t", "a", "g", "e">>
KEY_pv1c == <<"p", "v", "1", "_", "c", "u", "r", "r", "e", "n", "t">>
KEY_eday == <<"e", "n", "e", "r", "g", "y", "_", "t", "o", "d", "a", "y">>

SolisItems ==
    <<Item(CHARS_uPv \o <<"1">>, NumStr(35050), "pv01_voltage"),
      Item(CHARS_iPv \o <<"1">>, NumStr(820), "pv01_current"),
      Item(CHARS_uPv \o <<"7">>, NumStr(41000), "pv07_voltage"),
      Item(CHARS_iPv \o <<"1", "2">>, NumStr(550), "pv12_current"),
      Item(CHARS_uPv \o <<"1", "3">>, NumStr(39900), "none"),
      Item(CHARS_uAc \o <<"1">>, NumStr(23010), "r_voltage"),
      Item(CHARS_pac, NumStr(4200), "total_power")>>

ShineItems ==
    <<Item(TITLE_dc1, NumStr(35050), "pv01_voltage"),
      Item(TITLE_dc3, NumStr(36000), "pv03_voltage"),
      Item(TITLE_freq, NumStr(5000), "frequency"),
      Item(TITLE_power, NumStr(420000), "total_power"),
      Item(TITLE_energy, NumStr(1250), "energy_today")>>

SolarmanItems ==
    <<Item(CHARS_power, NoneV, "total_power"),
      Item(KEY_pv1v, NumStr(35050), "pv01_voltage"),
      Item(KEY_pv2v, NumStr(36000), "pv02_voltage"),
      Item(KEY_pv10v, NumStr(37000), "pv10_voltage"),
      Item(KEY_pv1c, NumStr(820), "pv01_current"),
      Item(KEY_eday, NumStr(1250), "energy_today")>>

VendorReadings ==
    {Vendor("soliscloud", kind, Pick(SolisItems, S), NoneV) :
        kind \in {"real_time", "historical"}, S \in SUBSET (1..Len(SolisItems))}
    \cup
    {Vendor("shinemonitor", kind, Pick(ShineItems, S), e) :
        kind \in {"real_time", "historical"}, S \in SUBSET (1..Len(ShineItems)),
        e \in {Num(0), NumStr(1250)}}
    \cup
    {Vendor("solarman", kind, Pick(SolarmanItems, S), NoneV) :
        kind \in {"real_time", "historical"}, S \in SUBSET (1..Len(SolarmanItems))}

MappingInit ==
    /\ tables = EmptyTables
    /\ error_logs = <<>>
    /\ conn = CleanConn
    /\ job = NoCall.a
    /\ last = NoCall
    /\ ingested = {}
    /\ calls = 0
    /\ FlattenIdle
    /\ run \in {[NoRun EXCEPT !.vendor = v] : v \in VendorReadings}

\* the reading is fetched and written
FetchAndIngest ==
    /\ ~last.called
    /\ \E env \in SinkEnvs :
       \E a \in {vendor_args(run.vendor, vendor_response(run.vendor))} :
       \E r \in {insert_data_to_db(tables, conn, error_logs, a, env)} :
          /\ tables' = r.tables
          /\ conn' = r.conn
          /\ error_logs' = r.error_logs
          /\ job' = a
          /\ last' = [called |-> TRUE, a |-> a, env |-> env,
                      fresh |-> conn = CleanConn, again |-> FALSE,
                      raised |-> r.raised, execs |-> r.execs,
                      logged |-> SubSeq(r.error_logs, Len(error_logs) + 1, Len(r.error_logs))]
          /\ ingested' = IF Accepted(r) THEN ingested \cup {a} ELSE ingested
    /\ calls' = calls + 1
    /\ UNCHANGED run
    /\ UNCHANGED flattenVars

MappingNext == FetchAndIngest
SpecMapping == MappingInit /\ [][MappingNext]_vars

\* the vendor reported a value for a canonical channel
Reported(key) ==
    \/ \E i \in 1..Len(run.vendor.items) :
          run.vendor.items[i].channel = key /\ run.vendor.items[i].value # NoneV
    \/ key = "energy_today" /\ run.vendor.api_provider = "shinemonitor"
       /\ run.vendor.energy_today.k = "numstr"

\* C15: a channel the vendor payload did not report for a reading is null in
\* the row handed to the sink, for every vendor and for both fetches.
C15_AbsentChannelsAreNull ==
    (SinkHealthy /\ run.vendor # <<>>) =>
        \A k \in 1..Len(Handed) : \A key \in PhysicalChannels :
            ~Reported(key) => Handed[k].c[key] = NoneV

\* a SolisCloud reading without any PV field was written with 0.0 in a PV
\* channel
C15_ZeroForAbsent ==
    /\ SinkHealthy
    /\ run.vendor # <<>>
    /\ run.vendor.api_provider = "soliscloud"
    /\ ~Reported("pv02_voltage")
    /\ Len(Handed) = 1
    /\ Handed[1].c["pv02_voltage"] = Num(0)

\* the entries the adapter made of the reading, as insert_data_to_db got them
Entries ==
    CASE job.data.t = "list" -> job.data.items
      [] job.data.t = "dict" -> <<job.data>>
      [] OTHER -> <<>>

Mapped(api_provider) ==
    last.called /\ run.vendor # <<>> /\ run.vendor.api_provider = api_provider

\* some entry of the reading has the item's value in the item's channel
InOwnChannel(item) ==
    \E k \in 1..Len(Entries) :
        /\ item.channel \in DOMAIN Entries[k].ch
        /\ Entries[k].ch[item.channel] = to_float(item.value)

\* every PV channel an entry has a value in got it from an item of that
\* channel
NoForeignChannel ==
    \A k \in 1..Len(Entries) : \A key \in DOMAIN Entries[k].ch \cap PvCols :
        Entries[k].ch[key] \notin {NoneV, Num(0)} =>
            \E i \in 1..Len(run.vendor.items) :
                /\ run.vendor.items[i].channel = key
                /\ to_float(run.vendor.items[i].value) = Entries[k].ch[key]

\* C16: the SolisCloud adapter puts uPv<i> in pv<ii>_voltage and iPv<i> in
\* pv<ii>_current for i in 1..12, in the real-time and in the historical
\* fetch alike, and a field outside that range (uPv13) populates nothing.
C16_SolisCloudTwelveInputs ==
    Mapped("soliscloud") =>
        /\ \A i \in 1..Len(run.vendor.items) :
              run.vendor.items[i].channel \in PvCols => InOwnChannel(run.vendor.items[i])
        /\ NoForeignChannel

\* the historical fetch of a reading with uPv7 left pv07_voltage out
C16_SeventhInputDropped ==
    /\ Mapped("soliscloud")
    /\ run.vendor.kind = "historical"
    /\ \E i \in 1..Len(run.vendor.items) : run.vendor.items[i].channel = "pv07_voltage"
    /\ Len(Entries) = 1
    /\ "pv07_voltage" \notin DOMAIN Entries[1].ch

\* C17: the Solarman adapter puts pv<N>_voltage in pv<NN>_voltage and
\* pv<N>_current in pv<NN>_current for N in 1..12, and no vendor key
\* populates a channel of a different index.
C17_SolarmanOwnIndex ==
    Mapped("solarman") =>
        /\ \A i \in 1..Len(run.vendor.items) :
              run.vendor.items[i].channel \in PvCols => InOwnChannel(run.vendor.items[i])
        /\ NoForeignChannel

\* the historical fetch of a reading with pv10_voltage and no pv1_voltage
\* has the tenth input's value in pv01_voltage
C17_TenthInputInFirstChannel ==
    /\ Mapped("solarman")
    /\ run.vendor.kind = "historical"
    /\ \A i \in 1..Len(run.vendor.items) : run.vendor.items[i].channel # "pv01_voltage"
    /\ Len(Entries) = 1
    /\ "pv01_voltage" \in DOMAIN Entries[1].ch
    /\ Entries[1].ch["pv01_voltage"] = Num(37000)

(***************************************************************************)
(* The entry point of data_fetchers/fetch_historic_data.py (464-630) under *)
(* its retry decorator: connect, load the credentials, take every device   *)
(* through fetch, flatten and insert_data_to_db, refresh customer_metrics. *)
(***************************************************************************)
EntryDevices == 1..MaxDevices

\* the entry point is called: first attempt of the decorator
EntryCalled(n) ==
    [pc |-> "connect", attempt |-> 1, n |-> n, di |-> 0,
     passes |-> [d \in EntryDevices |-> 0],
     outcome |-> [d \in EntryDevices |-> "none"]]

\* lines 464-468: an attempt ended with an exception.  OperationalError and
\* RequestException start the next attempt until the third, anything else
\* is raised to the caller at once.
retry_entry(e, exception) ==
    IF exception \in {"OperationalError", "RequestException"}
       /\ e.attempt < stop_after_attempt
    THEN [e EXCEPT !.pc = "connect", !.attempt = @ + 1, !.di = 0]
    ELSE [e EXCEPT !.pc = "raised"]

\* line 471: get_db_connection (68-74) raises OperationalError again
get_db_connection(e, outcome) ==
    IF outcome = "up" THEN [e EXCEPT !.pc = "load"]
    ELSE retry_entry(e, outcome)

\* lines 474-478 and 625-628: load_credentials_from_db (87-102) raises again,
\* no credential ends the attempt with a return
load_credentials_from_db(e, outcome) ==
    CASE outcome = "loaded" -> [e EXCEPT !.pc = "devices"]
      [] outcome = "none" -> [e EXCEPT !.pc = "returned"]
      [] OTHER -> retry_entry(e, outcome)

\* lines 594-621: one device is fetched, flattened and written; an empty
\* answer and an exception go on with the next device
device_pass(e, outcome) ==
    [e EXCEPT !.di = @ + 1,
              !.passes[e.di + 1] = @ + 1,
              !.outcome[e.di + 1] = outcome]

\* lines 623-628: refresh_customer_metrics (459-462) raises again
refresh_customer_metrics(e, outcome) ==
    IF outcome = "ok" THEN [e EXCEPT !.pc = "returned"]
    ELSE retry_entry(e, outcome)

EntryInit ==
    /\ tables = EmptyTables
    /\ error_logs = <<>>
    /\ conn = CleanConn
    /\ job = NoCall.a
    /\ last = NoCall
    /\ ingested = {}
    /\ calls = 0
    /\ FlattenIdle
    /\ run \in {[NoRun EXCEPT !.entry = EntryCalled(n)] : n \in 0..MaxDevices}

Connect ==
    /\ run.entry.pc = "connect"
    /\ \E outcome \in {"up", "OperationalError"} :
          run' = [run EXCEPT !.entry = get_db_connection(@, outcome)]
    /\ UNCHANGED <<sinkVars, flattenVars>>

LoadCredentials ==
    /\ run.entry.pc = "load"
    /\ \E outcome \in {"loaded", "none", "OperationalError"} :
          run' = [run EXCEPT !.entry = load_credentials_from_db(@, outcome)]
    /\ UNCHANGED <<sinkVars, flattenVars>>

DevicePass ==
    /\ run.entry.pc = "devices"
    /\ run.entry.di < run.entry.n
    /\ \E outcome \in {"written", "empty", "failed"} :
          run' = [run EXCEPT !.entry = device_pass(@, outcome)]
    /\ UNCHANGED <<sinkVars, flattenVars>>

RefreshMetrics ==
    /\ run.entry.pc = "devices"
    /\ run.entry.di = run.entry.n
    /\ \E outcome \in {"ok", "OperationalError", "ProgrammingError"} :
          run' = [run EXCEPT !.entry = refresh_customer_metrics(@, outcome)]
    /\ UNCHANGED <<sinkVars, flattenVars>>

EntryNext == Connect \/ LoadCredentials \/ DevicePass \/ RefreshMetrics
SpecEntry == EntryInit /\ [][EntryNext]_vars

\* C18: within one invocation of the entry point each device goes through
\* fetch, flatten, normalize, validate and write at most once, and the entry
\* point is not executed again after a failure.
C18_NoWholePipelineRetry ==
    run.entry # <<>> =>
        /\ run.entry.attempt = 1
        /\ \A d \in EntryDevices : run.entry.passes[d] <= 1

\* a device written in the first attempt has gone through the pipeline again
\* in the second
C18_DeviceTakenTwice ==
    /\ run.entry # <<>>
    /\ run.entry.attempt = 2
    /\ run.entry.passes[1] = 2
    /\ run.entry.outcome[1] = "written"

\* C19: log_error_to_db never raises to its caller: with the error log out
\* of reach the failure of a device is only logged and the device loop goes
\* on with the next device, so that no device ends the run.
C19_ErrorLogNeverEndsRun ==
    \A f \in run.finished : f.outcome # "raised"

\* the fetch of a device failed while the error-log connection could not be
\* opened, and the run ended there
C19_RunEndedInErrorLog ==
    /\ run.pc = "aborted"
    /\ Len(run.fetches) > 0
    /\ \E f \in run.finished : f.outcome = "raised"
    /\ error_logs = <<>>

(***************************************************************************)
(* SolarmanAPI's session token (solarman_api.py 92-173).  Time is in       *)
(* seconds; the clock moves between the calls.                             *)
(***************************************************************************)
MaxTicks == 4           \* clock steps of a SolarmanAPI object's life
tick == 300             \* seconds of a clock step
epoch == 900            \* time.time() when the object is made
expiry_margin == 300    \* line 125

NoExpiry == [set |-> FALSE, at |-> 0]
Expiry(at) == [set |-> TRUE, at |-> at]

\* lines 92-93: the object as __init__ leaves it
NoToken == [access_token |-> "none", token_expiry |-> NoExpiry]

\* lines 95-98
_is_token_expired(t, now) ==
    IF t.access_token = "none" \/ ~t.token_expiry.set \/ t.token_expiry.at = 0 THEN TRUE
    ELSE now >= t.token_expiry.at

\* the answers to the token request: a transport error, success false, and
\* success with expires_in absent, not a number, or a number of seconds
TokenAnswers ==
    {[kind |-> k, expires_in |-> 0] : k \in {"transport", "failure", "absent", "invalid"}}
    \cup {[kind |-> "seconds", expires_in |-> n] : n \in {60, 300, 600}}

\* lines 100-133: access_token is assigned before expires_in is looked at
get_access_token(t, now, answer) ==
    CASE answer.kind \in {"transport", "failure"} -> [token |-> t, raised |-> TRUE]
      [] answer.kind \in {"absent", "invalid"} ->
            [token |-> [t EXCEPT !.access_token = "token"], raised |-> TRUE]
      [] OTHER ->
            [token |-> [access_token |-> "token",
                        token_expiry |-> Expiry(now + answer.expires_in - expiry_margin)],
             raised |-> FALSE]

\* lines 141-173: the token is refreshed when expired and the request sent
\* without another look at it
_make_request(t, now, answer, refreshed) ==
    [before |-> t, now |-> now, token |-> refreshed.token,
     requested |-> _is_token_expired(t, now),
     sent |-> ~refreshed.raised]

TokenInit ==
    /\ tables = EmptyTables
    /\ error_logs = <<>>
    /\ conn = CleanConn
    /\ job = NoCall.a
    /\ last = NoCall
    /\ ingested = {}
    /\ calls = 0
    /\ FlattenIdle
    /\ run = [NoRun EXCEPT !.token = [state |-> NoToken, now |-> epoch, ticks |-> 0,
                                      call |-> <<>>]]

\* an API call of the adapter (get_plant_list, get_all_devices, ...)
ApiCall ==
    /\ \E answer \in TokenAnswers :
       \E c \in {_make_request(run.token.state, run.token.now, answer,
                               IF _is_token_expired(run.token.state, run.token.now)
                               THEN get_access_token(run.token.state, run.token.now, answer)
                               ELSE [token |-> run.token.state, raised |-> FALSE])} :
          run' = [run EXCEPT !.token.state = c.token, !.token.call = c]
    /\ UNCHANGED <<sinkVars, flattenVars>>

\* time passes
Tick ==
    /\ run.token.ticks < MaxTicks
    /\ run' = [run EXCEPT !.token.now = @ + tick, !.token.ticks = @ + 1,
                          !.token.call = <<>>]
    /\ UNCHANGED <<sinkVars, flattenVars>>

TokenNext == ApiCall \/ Tick
SpecToken == TokenInit /\ [][TokenNext]_vars

\* a token is cached and the clock is before its expiry
Unexpired(t, now) ==
    t.access_token # "none" /\ t.token_expiry.set /\ now < t.token_expiry.at

\* C20: an API call requests a new token exactly when no token is cached or
\* the time is at or after the cached expiry, and no API request is sent
\* unless access_token and token_expiry are set and the time is before
\* token_expiry.
C20_TokenRefresh ==
    (run.token # <<>> /\ run.token.call # <<>>) =>
        /\ run.token.call.requested <=> ~Unexpired(run.token.call.before, run.token.call.now)
        /\ run.token.call.sent => Unexpired(run.token.call.token, run.token.call.now)

\* an API request went out right after a token request whose answer put the
\* expiry at or before the present
C20_SentPastExpiry ==
    /\ run.token # <<>>
    /\ run.token.call # <<>>
    /\ run.token.call.requested
    /\ run.token.call.sent
    /\ run.token.call.token.token_expiry.set
    /\ run.token.call.now >= run.token.call.token.token_expiry.at

(***************************************************************************)
(* shinemonitor_api.fetch_historical_data (165-332) day by day: the        *)
(* window from start_date to end_date, one request a day, and what the     *)
(* caller makes of the result (fetch_historic_data.py 827-835).  Days are  *)
(* numbered from 1; a row of all_data is the day it was collected on.      *)
(***************************************************************************)
MAX_CONSECUTIVE_NO_RECORD == 30
MaxWindow == 32         \* days of the longest window
MaxRows == 1            \* days with data of a window

\* the answers to the request of a day: err # 0 with desc ERR_NO_RECORD, err
\* # 0 with another desc, err = 0 without rows, err = 0 with rows, and a
\* transport error
DayAnswers == {"no_record", "error", "empty", "data", "transport"}

\* lines 174-180, and what the model remembers of the answers: the requests
\* sent, the no-record answers in a row, the days that answered rows
Window(days) ==
    [pc |-> "auth", current_date |-> 1, end |-> days, all_data |-> <<>>,
     consecutive_no_record |-> 0, result |-> <<>>, gave_up |-> FALSE,
     caller |-> "waiting",
     sent |-> 0, streak |-> 0, data_days |-> <<>>, transport |-> FALSE]

\* return all_data / return []
returned(w, result) == [w EXCEPT !.pc = "returned", !.result = result]

\* lines 170-172: no secret or token returns []
authenticated(w, ok) == IF ok THEN [w EXCEPT !.pc = "loop"] ELSE returned(w, <<>>)

\* current_date += timedelta(days=1) and the test of the while loop (182)
next_day(w) ==
    IF w.current_date + 1 > w.end THEN returned([w EXCEPT !.current_date = @ + 1], w.all_data)
    ELSE [w EXCEPT !.current_date = @ + 1]

\* the loop is left after 10 no-record answers
no_record_after_ten(w) ==
    IF w.consecutive_no_record >= 10
    THEN returned([w EXCEPT !.gave_up = TRUE], w.all_data)
    ELSE next_day(w)

\* lines 195-204: the 30th no-record answer in the count breaks the loop
no_record(w) ==
    IF w.consecutive_no_record >= MAX_CONSECUTIVE_NO_RECORD
    THEN returned([w EXCEPT !.gave_up = TRUE], w.all_data)
    ELSE next_day(w)

\* the counter is never reset
day_request_without_reset(w, answer) ==
    CASE answer = "transport" -> returned(w, <<>>)
      [] answer = "no_record" ->
            no_record([w EXCEPT !.consecutive_no_record = @ + 1])
      [] answer = "data" -> next_day([w EXCEPT !.all_data = Append(@, w.current_date)])
      [] OTHER -> next_day(w)

\* the rows of the days before a transport error are returned
day_request_keeping_rows(w, answer) ==
    CASE answer = "transport" -> returned(w, w.all_data)
      [] answer = "no_record" ->
            no_record([w EXCEPT !.consecutive_no_record = @ + 1])
      [] answer = "error" -> next_day(w)
      [] answer = "empty" -> next_day([w EXCEPT !.consecutive_no_record = 0])
      [] OTHER -> next_day([w EXCEPT !.consecutive_no_record = 0,
                                     !.all_data = Append(@, w.current_date)])

\* lines 182-327 and 330-332: one pass of the while loop
day_request(w, answer) ==
    CASE answer = "transport" -> returned(w, <<>>)
      [] answer = "no_record" ->
            no_record([w EXCEPT !.consecutive_no_record = @ + 1])
      [] answer = "error" -> next_day(w)
      [] answer = "empty" -> next_day([w EXCEPT !.consecutive_no_record = 0])
      [] OTHER -> next_day([w EXCEPT !.consecutive_no_record = 0,
                                     !.all_data = Append(@, w.current_date)])

\* what the answers were, whatever the function made of them
Answered(w, answer) ==
    [w EXCEPT !.sent = @ + 1,
              !.transport = answer = "transport",
              !.streak = IF answer = "no_record" THEN @ + 1 ELSE 0,
              !.data_days = IF answer = "data" THEN Append(@, w.current_date) ELSE @]

\* fetch_historic_data.py 827-835: an empty result is logged as 'No
\* historical data' and the device left, anything else is flattened and
\* written
historical_result(w) ==
    [w EXCEPT !.pc = "done",
              !.caller = IF w.result = <<>> THEN "no_historical_data" ELSE "insert"]

\* the window of the pipeline (813-814) and a window longer than the limit
WindowInit ==
    /\ tables = EmptyTables
    /\ error_logs = <<>>
    /\ conn = CleanConn
    /\ job = NoCall.a
    /\ last = NoCall
    /\ ingested = {}
    /\ calls = 0
    /\ FlattenIdle
    /\ run \in {[NoRun EXCEPT !.window = Window(days)] : days \in {history_days, MaxWindow}}

Authenticate ==
    /\ run.window.pc = "auth"
    /\ \E ok \in BOOLEAN : run' = [run EXCEPT !.window = authenticated(@, ok)]
    /\ UNCHANGED <<sinkVars, flattenVars>>

DayRequest ==
    /\ run.window.pc = "loop"
    /\ \E answer \in DayAnswers :
          /\ answer = "data" => Len(run.window.all_data) < MaxRows
          /\ run' = [run EXCEPT !.window = day_request(Answered(@, answer), answer)]
    /\ UNCHANGED <<sinkVars, flattenVars>>

HistoricalFetched ==
    /\ run.window.pc = "returned"
    /\ run' = [run EXCEPT !.window = historical_result(@)]
    /\ UNCHANGED <<sinkVars, flattenVars>>

WindowNext == Authenticate \/ DayRequest \/ HistoricalFetched
SpecWindow == WindowInit /\ [][WindowNext]_vars
\* the function and its caller go on as long as they can
SpecWindowFair == SpecWindow /\ WF_vars(WindowNext)

Looping == run.window # <<>> /\ run.window.pc = "loop"

\* after 30 no-record answers in a row no request is to come; rows reset
\* the count; every request moved the date by one day; a give-up returns
\* the collected rows
GiveUp ==
    run.window # <<>> =>
        /\ run.window.streak >= MAX_CONSECUTIVE_NO_RECORD => ~Looping
        /\ (Looping /\ run.window.data_days # <<>>
                    /\ run.window.data_days[Len(run.window.data_days)] = run.window.sent)
              => run.window.consecutive_no_record = 0
        /\ run.window.sent <= run.window.end
        /\ Looping => run.window.current_date = run.window.sent + 1
        /\ run.window.gave_up => /\ run.window.pc \in {"returned", "done"}
                                 /\ run.window.result = run.window.data_days

\* C21: the ShineMonitor historical fetch sends no further day request once
\* 30 consecutive days answered 'no record', a day with data resets the
\* count, the day loop ends (the date advances on every path), and the rows
\* collected before the give-up are returned.
C21_GiveUpAfterThirty == [](GiveUp) /\ <>(run.window.pc = "done")

\* a window gave up on its 31st day and returned the rows of its first day
C21_GaveUpWithRows ==
    /\ run.window # <<>>
    /\ run.window.gave_up
    /\ run.window.sent = MAX_CONSECUTIVE_NO_RECORD + 1
    /\ run.window.sent < run.window.end
    /\ run.window.result = <<1>>

Over == run.window # <<>> /\ run.window.pc \in {"returned", "done"}

\* C26: when the request of any day of a ShineMonitor historical window
\* fails with a transport error, fetch_historical_data returns an empty
\* list: the rows of the earlier days are not returned and the caller takes
\* the device as having no historical data.
C26_TransportErrorDiscardsWindow ==
    (run.window # <<>> /\ run.window.transport) =>
        /\ Over
        /\ run.window.result = <<>>
        /\ run.window.pc = "done" => run.window.caller = "no_historical_data"

\* a window that had collected the rows of a day lost them to a transport
\* error on a later day
C26_RowsLost ==
    /\ run.window # <<>>
    /\ run.window.transport
    /\ run.window.data_days # <<>>
    /\ run.window.sent > 2
    /\ run.window.pc = "done"
    /\ run.window.caller = "no_historical_data"

\* the window fetch_historic_data asks for: 10 days ago to today
PipelineWindow == run.window # <<>> /\ run.window.end = history_days

R_none == DictNode(None, None, [total_power |-> Num(100)])
\* a timestamp that is the empty string
R_empty == DictNode(PyStr(<<>>), None, [total_power |-> Num(200)])
\* 06:20:00 as collectTime only
R_collect == DictNode(None, T2, [total_power |-> Num(300)])

MissingItems == {R_ok, R_none, R_empty, R_collect, Scalar}

MissingInit ==
    /\ tables = EmptyTables
    /\ error_logs = <<>>
    /\ conn = CleanConn
    /\ job \in {InsertArgs(ListNode(items), Device1, Customer1, p, is_real_time) :
                  items \in SeqsUpTo(MissingItems, MaxReadings), p \in Providers,
                  is_real_time \in BOOLEAN}
    /\ last = NoCall
    /\ ingested = {}
    /\ calls = 0
    /\ run = NoRun
    /\ FlattenIdle

SpecMissing == MissingInit /\ [][InsertNext]_vars

\* the item is a reading with a non-empty timestamp or collectTime
Stamped(item) == item.t = "dict" /\ Truthy(PyOr(item.timestamp, item.collectTime))

StampedItems == SelectSeq(job.data.items, Stamped)

\* C25: a reading without a non-empty timestamp or collectTime is removed by
\* flatten_data and never reaches the timestamp check of insert_data_to_db:
\* no 'Missing timestamp' or 'Invalid entry type' error is recorded, no
\* error-log row exists for it and no row is written for it.
C25_DroppedSilently ==
    last.called =>
        /\ \A k \in 1..Len(last.logged) :
              last.logged[k].error_message \notin {"missing_timestamp", "invalid_entry_type"}
        /\ \A k \in 1..Len(error_logs) : error_logs[k].field_name # "timestamp"
        /\ Len(Handed) <= Len(StampedItems)
        /\ StampedItems = <<>> => Handed = <<>> /\ error_logs = <<>>

\* a payload of a reading without timestamp and a healthy one was written:
\* one row, no error
C25_OneOfTwoWritten ==
    /\ SinkHealthy
    /\ job.data.items = <<R_none, R_ok>>
    /\ Len(Handed) = 1
    /\ error_logs = <<>>

(***************************************************************************)
(* flatten_data on deeply nested payloads, and on its own result as the    *)
(* historical path does (fetch_historic_data.py 833 and 396).              *)
(***************************************************************************)
MaxNest == 12           \* lists around the innermost item

\* x inside k lists
RECURSIVE Nest(_, _)
Nest(k, x) == IF k = 0 THEN x ELSE ListNode(<<Nest(k - 1, x)>>)

\* lists, dicts and scalars: an item under 0 to MaxNest lists, and lists of
\* readings and sub-lists
DeepPayloads ==
    {Nest(k, x) : k \in 0..MaxNest, x \in FlattenEntries \cup {Scalar}}
    \cup {ListNode(items) : items \in SeqsUpTo(FlattenEntries \cup SubLists \cup {Scalar}, MaxTop)}

DeepInit ==
    /\ fl_data \in DeepPayloads
    /\ fl_provider \in Providers
    /\ fl_result = NotCalled
    /\ SinkIdle

\* insert_data_to_db flattens the flattened list once more (line 396)
FlattenAgain ==
    /\ fl_result.st = "returned"
    /\ run.again = <<>>
    /\ \E r \in {flatten_data(ListNode(fl_result.out), fl_provider)} :
          run' = [run EXCEPT !.again = [st |-> IF r.raised THEN "raised" ELSE "returned",
                                        out |-> r.out]]
    /\ UNCHANGED <<flattenVars, sinkVars>>

DeepNext == FlattenCall \/ FlattenAgain
SpecDeep == DeepInit /\ [][DeepNext]_vars

\* the dicts of a payload that sit under at most max_depth + 1 lists, the
\* list at depth 0 being the payload itself
RECURSIVE DictsWithin(_, _)
DictsWithin(node, depth) ==
    CASE node.t = "dict" -> {node}
      [] node.t = "list" ->
            IF depth > max_depth THEN {}
            ELSE UNION {DictsWithin(node.items[i], depth + 1) : i \in 1..Len(node.items)}
      [] OTHER -> {}

\* C22: flatten_data never raises for an input built from lists, dicts and
\* scalars; what it returns holds dicts only, none from a list nested deeper
\* than 10 levels, and the timestamp of every dict with a timestamp at depth
\* at most 10 is in it.
C22_FlattenerRobust ==
    /\ fl_result.st # "raised"
    /\ fl_result.st = "returned" =>
          /\ \A i \in 1..Len(fl_result.out) :
                /\ fl_result.out[i].t = "dict"
                /\ fl_result.out[i] \in DictsWithin(fl_data, 0)
          /\ \A d \in DictsWithin(fl_data, 0) :
                Truthy(raw_timestamp(d, fl_provider)) =>
                    \E i \in 1..Len(fl_result.out) :
                        raw_timestamp(fl_result.out[i], fl_provider)
                            = raw_timestamp(d, fl_provider)

\* the Solarman branch returned nothing for a reading inside a nested list
C22_SolarmanNestedListDropped ==
    /\ fl_result.st = "returned"
    /\ fl_provider = "solarman"
    /\ fl_data = Nest(2, DictNode(T1, None, Power(100)))
    /\ fl_result.out = <<>>

\* C24: flatten_data(flatten_data(x, p), p) equals flatten_data(x, p) for
\* every payload x and vendor p.
C24_FlattenIdempotent ==
    run.again # <<>> => run.again = fl_result

\* the second flattening removed a reading the first one had kept
C24_SecondFlatteningShorter ==
    /\ run.again # <<>>
    /\ run.again.st = "returned"
    /\ Len(run.again.out) < Len(fl_result.out)

(***************************************************************************)
(* Batching (insert_data_to_db, lines 403-406 and 526-568), on the         *)
(* payloads of SpecBatch.                                                  *)
(***************************************************************************)
\* the rows of the executemany calls of a call, refused ones included
RECURSIVE RowsIssued(_)
RowsIssued(execs) ==
    IF execs = <<>> THEN <<>> ELSE Head(execs).rows \o RowsIssued(Tail(execs))

\* every statement carries 1 to batch_size rows, all but the last one
\* batch_size
BatchSizes ==
    \A k \in 1..Len(last.execs) :
        /\ Len(last.execs[k].rows) \in 1..batch_size
        /\ k < Len(last.execs) => Len(last.execs[k].rows) = batch_size

\* C23: every upsert statement of insert_data_to_db carries between 1 and
\* 200 rows, a batch is flushed as soon as 200 rows have accumulated and once
\* more for the remainder, and every reading that passed timestamp parsing
\* and validation is in exactly one upsert call, in flattened input order.
C23_EveryReadingInOneBatch ==
    last.called =>
        /\ BatchSizes
        /\ Len(RowsIssued(last.execs)) = Len(Readings)
        /\ \A i \in 1..Len(RowsIssued(last.execs)) :
              RowsIssued(last.execs)[i].c["total_power"] = Readings[i].ch.total_power

\* the sink refused the first batch while the error log was out of reach:
\* the call ended there, with the 201st reading in no statement
C23_RemainderNeverIssued ==
    /\ last.called
    /\ last.env.log_db = "down"
    /\ Len(Readings) = batch_size + 1
    /\ Len(last.execs) = 1
    /\ ~last.execs[1].ok
    /\ last.raised

\* the items of the vendor reading that carry a value
Valued == SelectSeq(run.vendor.items, LAMBDA it : it.value # NoneV)

\* the channels of a row that hold a value
Carried(row) == {key \in default_keys : row.c[key] \notin {NoneV, Unknown}}

\* C27: the Solarman real-time fetch makes one entry per reported item, all
\* with the same timestamp, so that after the deduplication of flatten_data
\* at most one row is written for the fetch, carrying at most one mapped
\* channel, that of the first item with a value; its other channels are null.
C27_SnapshotCollapses ==
    (Mapped("solarman") /\ run.vendor.kind = "real_time") =>
        /\ Len(Entries) = Len(Valued)
        /\ \A k \in 1..Len(Entries) : Entries[k].timestamp = Entries[1].timestamp
        /\ Len(RowsIssued(last.execs)) <= 1
        /\ \A k \in 1..Len(RowsIssued(last.execs)) :
              /\ Cardinality(Carried(RowsIssued(last.execs)[k])) <= 1
              /\ Carried(RowsIssued(last.execs)[k])
                    \subseteq {solarman_key(lower(Valued[1].key))}

\* a snapshot of voltage, current and energy was written as one row that
\* holds the voltage only
C27_OnlyTheFirstChannel ==
    /\ Mapped("solarman")
    /\ run.vendor.kind = "real_time"
    /\ SinkHealthy
    /\ Len(Valued) >= 3
    /\ Len(Handed) = 1
    /\ Carried(Handed[1]) = {"pv01_voltage"}

(***************************************************************************)
(* Readings off the five-minute grid on their way through                  *)
(* insert_data_to_db, for each of the three vendors.                       *)
(***************************************************************************)
Chars_0613 == <<"2", "0", "2", "4", "-", "0", "6", "-", "1", "0", " ",
                "0", "6", ":", "1", "3", ":", "2", "0">>
Chars_0617 == <<"2", "0", "2", "4", "-", "0", "6", "-", "1", "0", " ",
                "0", "6", ":", "1", "7", ":", "0", "0">>

\* 06:13:20 formatted, with a total_power above 100000
R_offbad == DictNode(PyStr(Chars_0613), None, [total_power |-> Num(10000002)])
\* 06:17:00 formatted, healthy
R_offfmt == DictNode(PyStr(Chars_0617), None, [total_power |-> Num(700), r_voltage |-> Num(23100)])

GridItems == {R_ok, R_fmt, R_off, R_offbad, R_offfmt}

GridInit ==
    /\ tables = EmptyTables
    /\ error_logs = <<>>
    /\ conn = CleanConn
    /\ job \in {InsertArgs(ListNode(items), Device1, Customer1, p, is_real_time) :
                  items \in SeqsUpTo(GridItems, MaxReadings), p \in Providers,
                  is_real_time \in BOOLEAN}
    /\ last = NoCall
    /\ ingested = {}
    /\ calls = 0
    /\ run = NoRun
    /\ FlattenIdle

SpecGrid == GridInit /\ [][InsertNext]_vars

\* the reading's timestamp parses and its minute is not a multiple of 5
OffGrid(reading) ==
    Parsed(reading).st = "ok" /\ Parsed(reading).entry_timestamp.mi % 5 # 0

\* the error row was made for the reading: for its timestamp or for the
\* value of one of its channels
ErrorOf(row, reading) ==
    \/ row.field_name = "timestamp" /\ row.field_value = Parsed(reading).raw
    \/ Has(reading, row.field_name) /\ row.field_value = reading.ch[row.field_name]

\* C29: for api_provider 'shinemonitor' a reading whose parsed timestamp has
\* a minute that is not a multiple of 5 is never written, to the real-time
\* table or to the historical one, and no error-log row is made for it; the
\* readings of the other two vendors are written whatever their minute.
C29_FiveMinuteFilter ==
    /\ job.api_provider = "shinemonitor" =>
          /\ \A t \in DOMAIN tables : \A k \in 1..Len(tables[t]) :
                tables[t][k].timestamp.mi % 5 = 0
          /\ \A k \in 1..Len(last.execs) : \A j \in 1..Len(last.execs[k].rows) :
                last.execs[k].rows[j].timestamp.mi % 5 = 0
          /\ \A k \in 1..Len(error_logs) : \A i \in 1..Len(Readings) :
                OffGrid(Readings[i]) => ~ErrorOf(error_logs[k], Readings[i])
    /\ (job.api_provider # "shinemonitor" /\ SinkHealthy) =>
          \A i \in 1..Len(Readings) :
              Parsed(Readings[i]).st = "ok" =>
                  /\ \E k \in 1..Len(Handed) :
                        Handed[k].timestamp = Parsed(Readings[i]).entry_timestamp
                  /\ \E k \in 1..Len(tables[job.table_name]) :
                        tables[job.table_name][k].timestamp = Parsed(Readings[i]).entry_timestamp

\* a ShineMonitor payload of an on-grid reading and an off-grid one with a
\* total_power out of range went through: one row, no error row
C29_OffGridSkipped ==
    /\ SinkHealthy
    /\ job.api_provider = "shinemonitor"
    /\ job.data.items = <<R_offbad, R_fmt>>
    /\ Len(Handed) = 1
    /\ Len(tables[job.table_name]) = 1
    /\ error_logs = <<>>

\* a Solarman payload of the same two readings went through: two rows, and
\* the error row of the off-grid reading
C29_OffGridWritten ==
    /\ SinkHealthy
    /\ job.api_provider = "solarman"
    /\ job.data.items = <<R_offbad, R_fmt>>
    /\ Len(tables[job.table_name]) = 2
    /\ Len(error_logs) = 1

(***************************************************************************)
(* Script_with_aps.py: get_or_create_parameter called by ingestions that   *)
(* overlap (jobs of the background scheduler, requests of the HTTP         *)
(* endpoint), each on a connection of its own taken from the pool.  The    *)
(* statements of a caller are the steps; the database is at READ           *)
(* COMMITTED.  The repository holds no definition of the parameters table: *)
(* it may or may not carry a unique index on (device_id, name).            *)
(***************************************************************************)
MaxCallers == 2     \* ingestions that overlap

Callers == 1..MaxCallers
ParamNames == {"total_power", "r_voltage"}
NoParam == 0        \* None: no cached id, no id returned

IdleCaller == [pc |-> "idle", param_name |-> "total_power", param_id |-> NoParam,
               result |-> NoParam, holds |-> FALSE, outage |-> FALSE]

\* the committed rows of a pair, as a SELECT of any connection sees them
parameter_rows(p, param_name) ==
    {k \in 1..Len(p.parameters) : p.parameters[k].name = param_name}

\* lines 192-196: the except clause and the finally clause
creation_failed(p, c, outage) ==
    [p EXCEPT !.callers[c].pc = "done", !.callers[c].result = NoParam,
              !.callers[c].holds = FALSE, !.callers[c].outage = outage,
              !.out = @ - 1]

\* lines 175-179: the cache lookup, and on a miss the connection
cache_lookup(p, c, param_name) ==
    IF p.redis[param_name] # NoParam
    THEN [p EXCEPT !.callers[c].pc = "done", !.callers[c].param_name = param_name,
                   !.callers[c].result = p.redis[param_name]]
    ELSE [p EXCEPT !.callers[c].pc = "select", !.callers[c].param_name = param_name,
                   !.callers[c].holds = TRUE, !.out = @ + 1]

\* lines 181-185: the SELECT and the branch on its result
select_parameter(p, c, ok) ==
    IF ~ok THEN creation_failed(p, c, TRUE)
    ELSE IF parameter_rows(p, p.callers[c].param_name) # {}
    THEN [p EXCEPT !.callers[c].pc = "setex",
                   !.callers[c].param_id =
                       p.parameters[CHOOSE k \in parameter_rows(p, p.callers[c].param_name) :
                                       \A j \in parameter_rows(p, p.callers[c].param_name) : k <= j].id]
    ELSE [p EXCEPT !.callers[c].pc = "insert"]

\* with a unique index, an INSERT waits for the open transaction that
\* inserted the same pair
insert_waits(p, c) ==
    /\ p.unique
    /\ \E d \in Callers \ {c} :
          p.callers[d].pc = "commit" /\ p.callers[d].param_name = p.callers[c].param_name

\* lines 187-188: INSERT ... RETURNING id; the sequence moves on for good
insert_parameter(p, c) ==
    IF p.unique /\ parameter_rows(p, p.callers[c].param_name) # {}
    THEN [creation_failed(p, c, FALSE) EXCEPT !.next_id = @ + 1]
    ELSE [p EXCEPT !.callers[c].pc = "commit", !.callers[c].param_id = p.next_id,
                   !.next_id = @ + 1]

\* line 189
commit_parameter(p, c) ==
    [p EXCEPT !.callers[c].pc = "setex",
              !.parameters = Append(@, [id |-> p.callers[c].param_id,
                                        name |-> p.callers[c].param_name])]

\* lines 190-191 and 196: the id is cached and returned, the connection put
\* back
cache_and_return(p, c) ==
    [p EXCEPT !.callers[c].pc = "done", !.callers[c].result = p.callers[c].param_id,
              !.callers[c].holds = FALSE, !.out = @ - 1,
              !.redis[p.callers[c].param_name] = p.callers[c].param_id]

ParamInit ==
    /\ tables = EmptyTables
    /\ error_logs = <<>>
    /\ conn = CleanConn
    /\ job = NoCall.a
    /\ last = NoCall
    /\ ingested = {}
    /\ calls = 0
    /\ FlattenIdle
    /\ \E unique \in BOOLEAN :
          run = [NoRun EXCEPT !.params =
                    [unique |-> unique, parameters |-> <<>>, next_id |-> 1,
                     redis |-> [n \in ParamNames |-> NoParam], out |-> 0,
                     callers |-> [c \in Callers |-> IdleCaller]]]

\* an ingestion calls get_or_create_parameter for a title of its row
GetOrCreate ==
    /\ \E c \in Callers, param_name \in ParamNames :
          /\ run.params.callers[c].pc = "idle"
          /\ run' = [run EXCEPT !.params = cache_lookup(@, c, param_name)]
    /\ UNCHANGED <<sinkVars, flattenVars>>

\* its SELECT is answered, or fails with the database
SelectParameter ==
    /\ \E c \in Callers, ok \in BOOLEAN :
          /\ run.params.callers[c].pc = "select"
          /\ run' = [run EXCEPT !.params = select_parameter(@, c, ok)]
    /\ UNCHANGED <<sinkVars, flattenVars>>

InsertParameter ==
    /\ \E c \in Callers :
          /\ run.params.callers[c].pc = "insert"
          /\ ~insert_waits(run.params, c)
          /\ run' = [run EXCEPT !.params = insert_parameter(@, c)]
    /\ UNCHANGED <<sinkVars, flattenVars>>

CommitParameter ==
    /\ \E c \in Callers :
          /\ run.params.callers[c].pc = "commit"
          /\ run' = [run EXCEPT !.params = commit_parameter(@, c)]
    /\ UNCHANGED <<sinkVars, flattenVars>>

CacheAndReturn ==
    /\ \E c \in Callers :
          /\ run.params.callers[c].pc = "setex"
          /\ run' = [run EXCEPT !.params = cache_and_return(@, c)]
    /\ UNCHANGED <<sinkVars, flattenVars>>

ParamNext ==
    \/ GetOrCreate
    \/ SelectParameter
    \/ InsertParameter
    \/ CommitParameter
    \/ CacheAndReturn

SpecParam == ParamInit /\ [][ParamNext]_vars

\* the callers that returned for the pair without an outage of the database
ReturnedFor(param_name) ==
    {c \in Callers : /\ run.params.callers[c].pc = "done"
                     /\ run.params.callers[c].param_name = param_name
                     /\ ~run.params.callers[c].outage}

\* a caller holds a connection only between getconn and putconn, and the
\* pool has out what the callers hold
ConnectionReturned ==
    /\ \A c \in Callers :
          run.params.callers[c].holds <=> run.params.callers[c].pc \notin {"idle", "done"}
    /\ run.params.out = Cardinality({c \in Callers : run.params.callers[c].holds})

\* C30: when get_or_create_parameter is called by overlapping ingestions for
\* the same (device_id, param_name), at most one parameters row is created
\* for the pair and every caller receives the same id; the connection taken
\* from the pool is returned on every path.
C30_OneRowOneId ==
    /\ \A param_name \in ParamNames :
          /\ Cardinality(parameter_rows(run.params, param_name)) <= 1
          /\ \A c, d \in ReturnedFor(param_name) :
                run.params.callers[c].result = run.params.callers[d].result
    /\ ConnectionReturned

\* without a unique index: two callers of the same pair returned, each with
\* the id of a row of its own
C30_TwoRowsForOnePair ==
    /\ ~run.params.unique
    /\ ReturnedFor("total_power") = Callers
    /\ Cardinality(parameter_rows(run.params, "total_power")) = 2
    /\ run.params.callers[1].result # run.params.callers[2].result
    /\ run.params.out = 0

\* with a unique index: one row, and the caller whose INSERT was refused
\* returned None
ParameterRefused ==
    /\ run.params.unique
    /\ ReturnedFor("total_power") = Callers
    /\ Cardinality(parameter_rows(run.params, "total_power")) = 1
    /\ \E c \in Callers : run.params.callers[c].result = NoParam
    /\ \E c \in Callers : run.params.callers[c].result # NoParam

\* at most one row per pair where the index is unique
OneRowUnderUniqueIndex ==
    run.params.unique =>
        \A param_name \in ParamNames :
            Cardinality(parameter_rows(run.params, param_name)) <= 1

====
